---------------------------- MODULE Spec2Model ----------------------------
(***************************************************************************)
(* The incremental similarity-and-relevance pipeline of the Jina note      *)
(* linker (python_src): process_and_embed_notes, generate_candidate_pairs  *)
(* and score_candidates as cli.main sequences them, over a vault of        *)
(* Markdown documents, the SQLite tables notes and scores, the embedding   *)
(* provider and the AI scoring provider.                                   *)
(*                                                                         *)
(* A document body is a short sequence of characters.  A path is a number  *)
(* (paths sort as Python sorts the path strings).  A note_id is a number:  *)
(* uuid4() of the document d is modelled as d itself, a fresh value that   *)
(* nothing in the code orders or inspects.  A SHA-256 digest is the pair   *)
(* <<"sha256", content>>: equal exactly when the hashed contents are.      *)
(***************************************************************************)
EXTENDS Integers, Sequences, FiniteSets, TLC

----------------------------------------------------------------------------
(* Bounds of the model                                                     *)

(* documents of the vault, and paths they may have *)
NDocs == 3
NPaths == 4

(* runs of cli.main in a behaviour *)
MaxRuns == 2

(* changes the user makes to the vault in a behaviour, once the first run  *)
(* has started (a change before it is another initial vault)               *)
MaxEnv == 1

Docs == 1..NDocs
Paths == 1..NPaths

(* Call arguments, scaled down from the defaults of config.py / cli.py so  *)
(* that batches, caps and budgets are met by a vault of NDocs documents.   *)
EMBEDDING_BATCH_SIZE == 2
AI_SCORING_BATCH_SIZE == 2
AI_SCORING_MAX_CHARS_PER_NOTE == 3
AI_SCORING_MAX_TOTAL_CHARS == 66
max_chars_for_jina == 3
max_content_length_for_ai == 3
max_retries == 3
initial_delay == 1

----------------------------------------------------------------------------
(* Sequences and ordered dicts                                             *)

Range(s) == {s[i] : i \in DOMAIN s}

Min(a, b) == IF a <= b THEN a ELSE b

Take(s, n) == SubSeq(s, 1, Min(n, Len(s)))

Drop(s, n) == SubSeq(s, n + 1, Len(s))

RECURSIVE SortedSeq(_)
SortedSeq(S) ==
  IF S = {} THEN <<>>
  ELSE LET m == CHOOSE x \in S : \A y \in S : x <= y
       IN  <<m>> \o SortedSeq(S \ {m})

(* A Python dict keeps insertion order: a sequence of [key, val] entries.  *)
DictHas(d, k) == \E i \in DOMAIN d : d[i].key = k

DictGet(d, k) == d[CHOOSE i \in DOMAIN d : d[i].key = k].val

DictSet(d, k, v) ==
  IF DictHas(d, k)
  THEN [i \in DOMAIN d |-> IF d[i].key = k THEN [key |-> k, val |-> v] ELSE d[i]]
  ELSE Append(d, [key |-> k, val |-> v])

RECURSIVE DictPop(_, _)
DictPop(d, k) ==
  IF d = <<>> THEN <<>>
  ELSE IF Head(d).key = k THEN DictPop(Tail(d), k)
  ELSE <<Head(d)>> \o DictPop(Tail(d), k)

----------------------------------------------------------------------------
(* Texts                                                                   *)

(* None *)
NULL == <<>>

(* the whitespace characters of the texts *)
Whitespace == {" ", "\n", "\r"}

BodyTexts == { <<" ">>, <<"a">>, <<"a", "b">>, <<"b">>, <<"a", "\n">> }

InitBodies == { <<" ">>, <<"a">>, <<"a", "b">> }

(* the vaults a behaviour starts from: two documents similar to each other *)
(* and a third of any of the initial bodies                                *)
InitVaults ==
  {b \in [Docs -> InitBodies] : b[1] = <<"a">> /\ b[2] = <<"a", "b">>}

(* str.strip() is empty: the text is empty or whitespace only              *)
IsBlank(text) == \A i \in DOMAIN text : text[i] \in Whitespace

(* str.rstrip("\r\n")                                                      *)
RECURSIVE RStripNewlines(_)
RStripNewlines(text) ==
  IF text # <<>> /\ text[Len(text)] \in {"\r", "\n"}
  THEN RStripNewlines(SubSeq(text, 1, Len(text) - 1))
  ELSE text

(* hasher: the marker, one token of a text                                 *)
HASH_BOUNDARY_MARKER == "<!-- HASH_BOUNDARY -->"

(* str.find(marker): the first position of the marker, 0 when there is none *)
FindMarker(text) ==
  IF \E i \in DOMAIN text : text[i] = HASH_BOUNDARY_MARKER
  THEN CHOOSE i \in DOMAIN text :
         /\ text[i] = HASH_BOUNDARY_MARKER
         /\ \A j \in 1..(i - 1) : text[j] # HASH_BOUNDARY_MARKER
  ELSE 0

(* str.replace("\r\n", "\n"): one pass from the left, the occurrences       *)
(* found in the input, not in the result                                   *)
RECURSIVE ReplaceCRLF(_)
ReplaceCRLF(text) ==
  IF text = <<>> THEN <<>>
  ELSE IF Len(text) >= 2 /\ text[1] = "\r" /\ text[2] = "\n"
       THEN <<"\n">> \o ReplaceCRLF(SubSeq(text, 3, Len(text)))
       ELSE <<text[1]>> \o ReplaceCRLF(Tail(text))

(* a strip of the trailing line ends only                                  *)
RStrip_LineEnds(text) == RStripNewlines(text)

(* str.rstrip(): every trailing whitespace character goes                  *)
RECURSIVE RStrip(_)
RStrip(text) ==
  IF text # <<>> /\ text[Len(text)] \in Whitespace
  THEN RStrip(SubSeq(text, 1, Len(text) - 1))
  ELSE text

(* hasher.extract_content_for_hashing(text_body); NULL is None             *)
extract_content_for_hashing(text_body) ==
  LET idx == FindMarker(text_body) IN
  IF idx = 0 THEN NULL
  ELSE LET content == SubSeq(text_body, 1, idx - 1) IN
       IF IsBlank(content) THEN <<"\n">>
       ELSE RStrip(ReplaceCRLF(content)) \o <<"\n">>

(* embed_pipeline: the content that is hashed is what                      *)
(* extract_content_for_hashing(body) returns, and the whole body with its  *)
(* trailing line ends replaced by one when it returns None.  It is None    *)
(* for every body read_markdown_with_frontmatter returns, which has        *)
(* already cut the text at the marker.                                     *)
ContentToHash(body) ==
  LET content_to_hash == extract_content_for_hashing(body) IN
  IF content_to_hash = NULL THEN RStripNewlines(body) \o <<"\n">>
  ELSE content_to_hash

calculate_hash_from_content(content) == <<"sha256", content>>

(* The vector the embedding provider returns for a text: the model's       *)
(* provider counts the letters of the text.                                *)
CountOf(text, c) == Cardinality({i \in DOMAIN text : text[i] = c})

JinaVector(text) == <<CountOf(text, "a"), CountOf(text, "b")>>


----------------------------------------------------------------------------
(* Similarity: a cosine is kept exactly, as [num, den2] = num / sqrt(den2) *)

RECURSIVE SumTo(_, _, _)
SumTo(v, w, n) == IF n = 0 THEN 0 ELSE v[n] * w[n] + SumTo(v, w, n - 1)

Dot(v, w) == SumTo(v, w, Len(v))

ZeroSim == [num |-> 0, den2 |-> 1]

(* a cosine without the guard on the two lengths: zip() stops at the       *)
(* shorter vector                                                          *)
cosine_similarity_NoLengthGuard(vec1, vec2) ==
  IF vec1 = <<>> \/ vec2 = <<>> THEN ZeroSim
  ELSE LET n  == IF Len(vec1) < Len(vec2) THEN Len(vec1) ELSE Len(vec2)
           v1 == SubSeq(vec1, 1, n)
           v2 == SubSeq(vec2, 1, n)
       IN  IF Dot(vec1, vec1) = 0 \/ Dot(vec2, vec2) = 0 THEN ZeroSim
           ELSE [num |-> Dot(v1, v2), den2 |-> Dot(vec1, vec1) * Dot(vec2, vec2)]

cosine_similarity(vec1, vec2) ==
  IF vec1 = <<>> \/ vec2 = <<>> \/ Len(vec1) # Len(vec2) THEN ZeroSim
  ELSE IF Dot(vec1, vec1) = 0 \/ Dot(vec2, vec2) = 0 THEN ZeroSim
  ELSE [num |-> Dot(vec1, vec2), den2 |-> Dot(vec1, vec1) * Dot(vec2, vec2)]

(* s > t for cosines *)
SimGeq_Strict(s, t) ==
  IF s.num >= 0 /\ t.num >= 0 THEN s.num * s.num * t.den2 > t.num * t.num * s.den2
  ELSE IF s.num >= 0 THEN TRUE
  ELSE IF t.num >= 0 THEN FALSE
  ELSE s.num * s.num * t.den2 < t.num * t.num * s.den2

(* s >= t for cosines, by the sign and the squares                         *)
SimGeq(s, t) ==
  IF s.num >= 0 /\ t.num >= 0 THEN s.num * s.num * t.den2 >= t.num * t.num * s.den2
  ELSE IF s.num >= 0 THEN TRUE
  ELSE IF t.num >= 0 THEN FALSE
  ELSE s.num * s.num * t.den2 <= t.num * t.num * s.den2

(* DEFAULT_SIMILARITY_THRESHOLD = 0.70 = 7 / sqrt(100)                     *)
DEFAULT_SIMILARITY_THRESHOLD == [num |-> 7, den2 |-> 100]

(* the list left in the order of the two loops                             *)
InsertBySim_Append(sorted, c) == Append(sorted, c)

(* list.sort(key = jina_similarity, reverse = True): stable, descending    *)
RECURSIVE InsertBySim(_, _)
InsertBySim(sorted, c) ==
  IF sorted = <<>> THEN <<c>>
  ELSE IF SimGeq(Head(sorted).jina_similarity, c.jina_similarity)
       THEN <<Head(sorted)>> \o InsertBySim(Tail(sorted), c)
       ELSE <<c>> \o sorted

RECURSIVE SortBySimDesc(_)
SortBySimDesc(cs) ==
  IF cs = <<>> THEN <<>>
  ELSE InsertBySim(SortBySimDesc(SubSeq(cs, 1, Len(cs) - 1)), cs[Len(cs)])

(* every (i, j) of valid_paths, i = j and j < i included                   *)
PairsFrom_EveryOrder(n, i, j) ==
  [k \in 1..(n * n) |-> <<((k - 1) \div n) + 1, ((k - 1) % n) + 1>>]

(* The pairs (i, j), i < j, of valid_paths in the order of the two loops   *)
RECURSIVE PairsFrom(_, _, _)
PairsFrom(n, i, j) ==
  IF i >= n THEN <<>>
  ELSE IF j > n THEN PairsFrom(n, i + 1, i + 2)
  ELSE <<<<i, j>>>> \o PairsFrom(n, i, j + 1)

HasEmbedding(e) == e.val.embedding # NULL

generate_candidate_pairs(files_data, similarity_threshold) ==
  LET valid == SelectSeq(files_data, HasEmbedding)
      ij    == PairsFrom(Len(valid), 1, 2)
      cand(k) == [source_path |-> valid[ij[k][1]].key,
                  target_path |-> valid[ij[k][2]].key,
                  jina_similarity |-> cosine_similarity(valid[ij[k][1]].val.embedding,
                                                        valid[ij[k][2]].val.embedding)]
      Above(c) == SimGeq(c.jina_similarity, similarity_threshold)
  IN  SortBySimDesc(SelectSeq([k \in DOMAIN ij |-> cand(k)], Above))

----------------------------------------------------------------------------
(* ai_scoring/scorer.py                                                    *)

(* len(os.path.basename(path)): every note of the model is named "<c>.md"  *)
BaseNameLen == 4

(* len(pair_text): the 21 literal characters of the f-string, the one      *)
(* digit of idx+1, the two names and the two excerpts                      *)
PairTextLen(src, tgt) == 21 + 1 + BaseNameLen + Len(src) + BaseNameLen + Len(tgt)

(* The loop over enumerate(prompt_pairs): the number of pairs whose block  *)
(* is added to content_pairs_text before the budget breaks the loop        *)
GreedyCount_NoBudget(pairs, idx, total_length, single_note_limit, max_total_length) == Len(pairs)

RECURSIVE GreedyCount(_, _, _, _, _)
GreedyCount(pairs, idx, total_length, single_note_limit, max_total_length) ==
  IF idx > Len(pairs) THEN Len(pairs)
  ELSE LET pair_length == PairTextLen(Take(pairs[idx].source_content, single_note_limit),
                                      Take(pairs[idx].target_content, single_note_limit))
       IN  IF total_length + pair_length > max_total_length THEN idx - 1
           ELSE GreedyCount(pairs, idx + 1, total_length + pair_length,
                            single_note_limit, max_total_length)

(* `x or default` of Python for a number: None and 0 give the default      *)
OrDefault(x, default) == IF x = 0 THEN default ELSE x

(* build_ai_batch_request: the request is modelled by the blocks of its    *)
(* content_pairs_text, in order, each with its two cut excerpts.           *)
build_ai_batch_request(prompt_pairs, max_content_length, max_pairs, max_chars_per_note, max_total_chars) ==
  LET mp    == OrDefault(max_pairs, AI_SCORING_BATCH_SIZE)
      limit == Min(OrDefault(max_chars_per_note, AI_SCORING_MAX_CHARS_PER_NOTE),
                   max_content_length)
      total == OrDefault(max_total_chars, AI_SCORING_MAX_TOTAL_CHARS)
      cut   == Take(prompt_pairs, mp)
      n     == GreedyCount(cut, 1, 0, limit, total)
  IN  [i \in 1..n |->
         [source_path    |-> cut[i].source_path,
          target_path    |-> cut[i].target_path,
          source_content |-> Take(cut[i].source_content, limit),
          target_content |-> Take(cut[i].target_content, limit)]]

(* A reply text is a sequence of tokens: a number (a decimal numeral       *)
(* without leading zeros), a comma, or a word (letters or a punctuation    *)
(* mark).  Two neighbouring numbers or words are separated by one space.   *)
Num(n) == [k |-> "num", v |-> n]

Comma == [k |-> "comma", v |-> 0]

Word == [k |-> "word", v |-> 0]

IsNum(t) == t.k = "num"

RECURSIVE Pow10Above(_)
Pow10Above(n) == IF n < 10 THEN 10 ELSE 10 * Pow10Above(n \div 10)

(* int(str(a) + str(b))                                                    *)
ConcatNum(a, b) == a * Pow10Above(b) + b

(* `if 0 <= num <= 10` of the two loops, else 0                             *)
Clip_BelowTen(num) == IF 0 <= num /\ num < 10 THEN num ELSE 0

Clip(num) == IF 0 <= num /\ num <= 10 THEN num ELSE 0

(* text.strip().replace(" ", "") split at the commas, when the whole of it *)
(* matches ^(\d+,)*\d+$; <<-1>> when it does not match.  Removing the      *)
(* spaces joins the digits of neighbouring numbers into one numeral.       *)
RECURSIVE CleanSplit(_, _, _)
CleanSplit(tokens, acc, cur) ==
  IF tokens = <<>> THEN (IF cur = -1 THEN <<-1>> ELSE Append(acc, cur))
  ELSE LET t == Head(tokens)
       IN  IF IsNum(t)
           THEN CleanSplit(Tail(tokens), acc, IF cur = -1 THEN t.v ELSE ConcatNum(cur, t.v))
           ELSE IF t = Comma /\ cur # -1 THEN CleanSplit(Tail(tokens), Append(acc, cur), -1)
           ELSE <<-1>>

(* re.findall(r'\b(10|[0-9])\b', text): the standalone numerals 0..10      *)
StandaloneScore(t) == IsNum(t) /\ t.v <= 10

(* re.findall(r'(\d+)(?:,|$)', text): numerals followed by a comma or the  *)
(* end of the text                                                         *)
CommaMatches(tokens) ==
  LET idx == SortedSeq({i \in DOMAIN tokens :
                          /\ IsNum(tokens[i])
                          /\ (i = Len(tokens) \/ tokens[i + 1] = Comma)})
  IN  [k \in DOMAIN idx |-> tokens[idx[k]]]

(* the loop over scores_matches, with its break at expected_count          *)
RECURSIVE AppendMatches(_, _, _)
AppendMatches(scores, matches, expected_count) ==
  IF matches = <<>> THEN scores
  ELSE LET s2 == Append(scores, Clip(Head(matches).v))
       IN  IF Len(s2) = expected_count THEN s2
           ELSE AppendMatches(s2, Tail(matches), expected_count)

(* the `while len(scores) < expected_count` loop                           *)
PadZeros_Nothing(scores, n) == scores

PadZeros(scores, n) ==
  [i \in 1..(IF Len(scores) < n THEN n ELSE Len(scores)) |->
     IF i <= Len(scores) THEN scores[i] ELSE 0]

extract_scores_from_text(text, expected_count) ==
  LET split   == CleanSplit(text, <<>>, -1)
      fast    == IF split = <<-1>> THEN <<>> ELSE [i \in DOMAIN split |-> Clip(split[i])]
      std     == SelectSeq(text, StandaloneScore)
      matches == IF std # <<>> THEN std ELSE CommaMatches(text)
  IN  IF split # <<-1>> /\ Len(fast) = expected_count THEN fast
      ELSE Take(PadZeros(AppendMatches(fast, matches, expected_count), expected_count),
                expected_count)

(* parse_ai_batch_response: a response is [field, text]: whether the body  *)
(* carries the provider's reply field and the reply text.  Every provider  *)
(* branch does the same with the text it finds.                            *)
parse_ai_batch_response(response_data, prompt_pairs) ==
  IF prompt_pairs = <<>> \/ ~response_data.field THEN <<>>
  ELSE LET scores == extract_scores_from_text(response_data.text, Len(prompt_pairs))
       IN  [idx \in 1..Min(Len(prompt_pairs), Len(scores)) |->
              [source_path |-> prompt_pairs[idx].source_path,
               target_path |-> prompt_pairs[idx].target_path,
               ai_score    |-> scores[idx]]]

(* The response bodies the AI provider of the model may send               *)
AiResponses ==
  { [field |-> FALSE, text |-> <<>>],
    [field |-> TRUE,  text |-> <<Num(7)>>],
    [field |-> TRUE,  text |-> <<Num(7), Comma, Num(3)>>],
    [field |-> TRUE,  text |-> <<Word, Word>>] }

----------------------------------------------------------------------------
(* State                                                                   *)

VARIABLES
  (* the vault: the Markdown files on disk *)
  path,            \* document -> its current relative path
  fm_note_id,      \* document -> the note_id of its front-matter, 0 when it has none
  body,            \* document -> the body read_markdown_with_frontmatter returns
  gone,            \* the documents that were deleted
  unreadable,      \* the documents whose file cannot be read (read_text raises)
  (* the SQLite database *)
  notes,           \* committed rows of the notes table, in rowid order
  scores,          \* committed rows of the scores table
  conn,            \* the rows the connection of process_and_embed_notes sees
  (* the running pipeline *)
  pc,              \* where the run is; "idle" when no run is in progress
  args,            \* the arguments of the run
  files,           \* files_relative_to_project_root
  batch_start,     \* the loop variable of the batch loop in progress
  files_data_from_db,
  all_files_data_for_return,
  batch_contents,
  batch_file_info,
  embeddings,
  attempt,         \* the loop variable of the retry loop in progress
  delay,
  valid_pairs,
  prompt_pairs,
  data,            \* the request build_ai_batch_request returned
  results,
  (* what happened so far, for the properties *)
  hist

vaultVars == <<path, fm_note_id, body, gone, unreadable>>
dbVars    == <<notes, scores, conn>>
embedVars == <<files, files_data_from_db, all_files_data_for_return,
               batch_contents, batch_file_info, embeddings>>
scoreVars == <<valid_pairs, prompt_pairs, data, results>>
vars == <<path, fm_note_id, body, gone, unreadable, notes, scores, conn, pc, args,
          files, batch_start, files_data_from_db, all_files_data_for_return,
          batch_contents, batch_file_info, embeddings, attempt, delay,
          valid_pairs, prompt_pairs, data, results, hist>>

NoPairs == [docs |-> {}, pairs |-> {}]

Init ==
  /\ path = [d \in Docs |-> d]
  /\ fm_note_id = [d \in Docs |-> 0]
  /\ body \in InitVaults
  /\ gone = {}
  /\ unreadable = {}
  /\ notes = <<>>
  /\ scores = {}
  /\ conn = [notes |-> <<>>, scores |-> {}]
  /\ pc = "idle"
  /\ args \in [force_rescore : {FALSE}, pairs_carry_ids : BOOLEAN]
  /\ files = <<>>
  /\ batch_start = 0
  /\ files_data_from_db = <<>>
  /\ all_files_data_for_return = <<>>
  /\ batch_contents = <<>>
  /\ batch_file_info = <<>>
  /\ embeddings = <<>>
  /\ attempt = 0
  /\ delay = 0
  /\ valid_pairs = <<>>
  /\ prompt_pairs = <<>>
  /\ data = <<>>
  /\ results = <<>>
  /\ hist = [runNo      |-> 0,          \* runs started so far
             lastEnd    |-> "none",     \* how the latest run ended
             prevEnd    |-> "none",     \* how the run before the current one ended
             envSteps   |-> 0,          \* changes made to the vault so far
             outage     |-> "none",     \* the one outage of a provider: none, on, over
             changed    |-> FALSE,      \* the vault changed since the current run started
             unchanged  |-> FALSE,      \* no change between the previous run's start and this one's
             prevForce  |-> FALSE,      \* the previous run was a force run
             prevNotes  |-> <<>>,       \* the tables when the current run started
             prevScores |-> {},
             embLog     |-> <<>>,       \* requests sent to the embedding provider in this run
             aiLog      |-> <<>>,       \* requests sent to the AI provider in this run
             failedPrev |-> {},         \* pairs whose scoring request failed in an earlier run
             committed  |-> NoPairs,    \* documents and pairs of the batches this run committed
             resume     |-> NoPairs]    \* those of the previous run, when it was interrupted

----------------------------------------------------------------------------
(* The vault                                                               *)

Exists(p) == \E d \in Docs \ gone : path[d] = p

DocAt(p) == CHOOSE d \in Docs \ gone : path[d] = p

(* the note_id a document's file carries, by its path *)
NoteIdAt(fm, p) == fm[DocAt(p)]

(* os.path.exists and a read that does not raise *)
CanRead(p) == Exists(p) /\ DocAt(p) \notin unreadable

(* uuid.uuid4() for the document d *)
uuid4(d) == d

(* a change of the vault, counted *)
Touch == hist' = [hist EXCEPT !.envSteps = @ + 1, !.changed = TRUE]

(* the user renames or moves a document between two runs *)
Rename(d, p) ==
  /\ pc = "idle" /\ hist.runNo >= 1 /\ hist.envSteps < MaxEnv
  /\ d \notin gone /\ ~Exists(p)
  /\ path' = [path EXCEPT ![d] = p]
  /\ Touch
  /\ UNCHANGED <<fm_note_id, body, gone, unreadable, dbVars, pc, args, batch_start,
                 embedVars, attempt, delay, scoreVars>>

(* the user moves a document onto the file of another one, which it        *)
(* overwrites, between two runs                                            *)
MoveOnto(d, e) ==
  /\ pc = "idle" /\ hist.runNo >= 1 /\ hist.envSteps < MaxEnv
  /\ d \notin gone /\ e \notin gone /\ d # e
  /\ path' = [path EXCEPT ![d] = path[e]]
  /\ gone' = gone \cup {e}
  /\ Touch
  /\ UNCHANGED <<fm_note_id, body, unreadable, dbVars, pc, args, batch_start,
                 embedVars, attempt, delay, scoreVars>>

(* the user edits a document between two runs *)
Edit(d, b) ==
  /\ pc = "idle" /\ hist.runNo >= 1 /\ hist.envSteps < MaxEnv
  /\ d \notin gone /\ b # body[d]
  /\ body' = [body EXCEPT ![d] = b]
  /\ Touch
  /\ UNCHANGED <<path, fm_note_id, gone, unreadable, dbVars, pc, args, batch_start,
                 embedVars, attempt, delay, scoreVars>>

(* between two runs, or while a request to a provider is in flight         *)
Meanwhile == pc \in {"idle", "embed_call", "ai_call"}

(* the user deletes a document, also while a run is in progress *)
Delete(d) ==
  /\ Meanwhile /\ hist.runNo >= 1 /\ hist.envSteps < MaxEnv
  /\ d \notin gone
  /\ gone' = gone \cup {d}
  /\ Touch
  /\ UNCHANGED <<path, fm_note_id, body, unreadable, dbVars, pc, args, batch_start,
                 embedVars, attempt, delay, scoreVars>>

(* a file becomes unreadable (bytes that are not UTF-8, permissions) *)
Corrupt(d) ==
  /\ Meanwhile /\ hist.runNo >= 1 /\ hist.envSteps < MaxEnv
  /\ d \notin gone /\ d \notin unreadable
  /\ unreadable' = unreadable \cup {d}
  /\ Touch
  /\ UNCHANGED <<path, fm_note_id, body, gone, dbVars, pc, args, batch_start,
                 embedVars, attempt, delay, scoreVars>>

----------------------------------------------------------------------------
(* cli.main and process_and_embed_notes                                    *)

NoConn == [notes |-> <<>>, scores |-> {}]

(* the run is over: its locals are dropped and its connection is closed,   *)
(* which rolls back what it had not committed                              *)
Ended ==
  /\ pc' = "idle"
  /\ conn' = NoConn
  /\ files' = <<>>
  /\ batch_start' = 0
  /\ files_data_from_db' = <<>>
  /\ all_files_data_for_return' = <<>>
  /\ batch_contents' = <<>>
  /\ batch_file_info' = <<>>
  /\ embeddings' = <<>>
  /\ attempt' = 0
  /\ delay' = 0
  /\ valid_pairs' = <<>>
  /\ prompt_pairs' = <<>>
  /\ data' = <<>>
  /\ results' = <<>>

(* files_data_from_db: file_name -> {hash, embedding, note_id}, filled in  *)
(* the order of the rows                                                   *)
RECURSIVE LoadNotes(_, _)
LoadNotes(rows, d) ==
  IF rows = <<>> THEN d
  ELSE LoadNotes(Tail(rows),
                 DictSet(d, Head(rows).file_name,
                         [hash      |-> Head(rows).content_hash,
                          embedding |-> Head(rows).embedding,
                          note_id   |-> Head(rows).note_id]))

(* the pairs of the requests of a run that ended in failure *)
FailedPairs(log) ==
  UNION { {f.ids : f \in log[i].pairs} :
            i \in {j \in DOMAIN log : log[j].final /\ log[j].status # "ok"} }

(* cli.main up to the call of process_and_embed_notes, and the start of    *)
(* that function: the scan of the vault, the load of the notes table.      *)
(* The first run of a behaviour is a plain run: over empty tables          *)
(* force_rescore changes nothing.                                          *)
StartRun(force) ==
  /\ pc = "idle" /\ hist.runNo < MaxRuns
  /\ force => hist.runNo >= 1
  /\ LET markdown_files == SortedSeq({path[d] : d \in Docs \ gone})
     IN  /\ markdown_files # <<>>
         /\ files' = markdown_files
         /\ hist' = [hist EXCEPT !.runNo      = @ + 1,
                                 !.prevEnd    = hist.lastEnd,
                                 !.lastEnd    = "running",
                                 !.changed    = FALSE,
                                 !.unchanged  = hist.runNo >= 1 /\ ~hist.changed,
                                 !.prevForce  = args.force_rescore,
                                 !.prevNotes  = notes,
                                 !.prevScores = scores,
                                 !.embLog     = <<>>,
                                 !.aiLog      = <<>>,
                                 !.failedPrev = @ \cup FailedPairs(hist.aiLog),
                                 !.committed  = NoPairs,
                                 !.resume     = IF hist.lastEnd = "interrupted"
                                                THEN hist.committed ELSE NoPairs]
  /\ args' = [args EXCEPT !.force_rescore = force]
  /\ conn' = [notes |-> notes, scores |-> scores]
  /\ files_data_from_db' = LoadNotes(notes, <<>>)
  /\ all_files_data_for_return' = LoadNotes(notes, <<>>)
  /\ batch_start' = 0
  /\ pc' = "embed"
  /\ UNCHANGED <<vaultVars, notes, scores, batch_contents, batch_file_info,
                 embeddings, attempt, delay, scoreVars>>

(* The test that keeps a document out of the batch (embed_pipeline.py     *)
(* 102-109): the table read at the start of the run has a row under the    *)
(* document's path, with the same hash and with a vector.                  *)
HasCurrentEmbedding_VectorIgnored(db, rel_path, content_hash) ==
  /\ DictHas(db, rel_path)
  /\ DictGet(db, rel_path).hash = content_hash

HasCurrentEmbedding(db, rel_path, content_hash) ==
  /\ DictHas(db, rel_path)
  /\ DictGet(db, rel_path).hash = content_hash
  /\ DictGet(db, rel_path).embedding # NULL

(* The loop over the files of one batch (embed_pipeline.py 63-120).  st is *)
(* what the loop has changed so far: the connection's rows, the returned   *)
(* dict, the two batch lists, the front-matters written, and whether a     *)
(* read raised.                                                            *)
RECURSIVE ScanBatch(_, _, _)
ScanBatch(batch_files, i, st) ==
  IF i > Len(batch_files) \/ st.raised THEN st
  ELSE
    LET rel_path == batch_files[i] IN
    IF ~Exists(rel_path)
    THEN LET hit == {k \in DOMAIN st.conn.notes : st.conn.notes[k].file_name = rel_path}
             nid_to_remove == st.conn.notes[CHOOSE k \in hit : \A m \in hit : k <= m].note_id
             Keep(row) == row.note_id # nid_to_remove
             conn2 == IF hit = {} THEN st.conn
                      ELSE [notes  |-> SelectSeq(st.conn.notes, Keep),
                            scores |-> {r \in st.conn.scores :
                                          /\ r.note_id_a # nid_to_remove
                                          /\ r.note_id_b # nid_to_remove}]
         IN  ScanBatch(batch_files, i + 1,
                       [st EXCEPT !.conn = conn2, !.all = DictPop(@, rel_path)])
    ELSE
      LET d == DocAt(rel_path) IN
      IF d \in unreadable THEN [st EXCEPT !.raised = TRUE]
      ELSE
        LET note_id      == IF st.fm[d] = 0 THEN uuid4(d) ELSE st.fm[d]
            content_hash == calculate_hash_from_content(ContentToHash(body[d]))
            processed_content == Take(body[d], max_chars_for_jina)
            cached == HasCurrentEmbedding(files_data_from_db, rel_path, content_hash)
        IN  IF cached
            THEN ScanBatch(batch_files, i + 1,
                           [st EXCEPT !.fm[d] = note_id,
                                      !.all = DictSet(@, rel_path,
                                                      DictGet(files_data_from_db, rel_path))])
            ELSE ScanBatch(batch_files, i + 1,
                           [st EXCEPT !.fm[d] = note_id,
                                      !.contents = Append(@, processed_content),
                                      !.info = Append(@, [file_path    |-> rel_path,
                                                          content_hash |-> content_hash,
                                                          note_id      |-> note_id])])

(* the providers fail one request and its retries in a behaviour: the      *)
(* outage after an answer, done when the request needs no further attempt  *)
Outage(outcome, done) ==
  IF outcome # "ok" THEN (IF done THEN "over" ELSE "on")
  ELSE IF hist.outage = "on" THEN "over" ELSE hist.outage

Nones(n) == [i \in 1..n |-> NULL]

(* get_jina_embeddings_batch, generator.py 103-108: the positions of the   *)
(* texts that are not blank, in order, and those texts                     *)
text_indices_All(texts) == SortedSeq(DOMAIN texts)

text_indices(texts) == SortedSeq({i \in DOMAIN texts : ~IsBlank(texts[i])})

valid_texts(texts) == [k \in DOMAIN text_indices(texts) |-> texts[text_indices(texts)[k]]]

(* generator.py 134-138: the vectors of the response put at the positions  *)
(* of their texts; a response item without a vector leaves None            *)
PlaceEmbeddings_ByPosition(texts, indices, result_data) ==
  [i \in 1..Len(texts) |->
     IF i <= Len(result_data) /\ i <= Len(indices) THEN result_data[i] ELSE NULL]

PlaceEmbeddings(texts, indices, result_data) ==
  [i \in 1..Len(texts) |->
     IF \E k \in DOMAIN indices : indices[k] = i /\ k <= Len(result_data)
     THEN result_data[CHOOSE k \in DOMAIN indices : indices[k] = i]
     ELSE NULL]

(* get_jina_embeddings_batch up to its retry loop (generator.py 94-120):   *)
(* without a text that is not blank it returns None for every text and     *)
(* sends nothing                                                           *)
StartEmbeddingsBatch(texts) ==
  IF valid_texts(texts) = <<>>
  THEN /\ embeddings' = Nones(Len(texts))
       /\ pc' = "embed_store"
       /\ UNCHANGED <<attempt, delay>>
  ELSE /\ embeddings' = <<>>
       /\ pc' = "embed_call"
       /\ attempt' = 0
       /\ delay' = initial_delay

(* One batch of process_and_embed_notes up to the request: the loop over   *)
(* its files, and the start of get_jina_embeddings_batch, which sends      *)
(* nothing when every text is blank.  A read that raises ends the run.     *)
EmbedBatchBegin ==
  /\ pc = "embed" /\ batch_start < Len(files)
  /\ LET batch_files == SubSeq(files, batch_start + 1,
                               Min(batch_start + EMBEDDING_BATCH_SIZE, Len(files)))
         st == ScanBatch(batch_files, 1,
                         [conn |-> conn, all |-> all_files_data_for_return,
                          contents |-> <<>>, info |-> <<>>,
                          fm |-> fm_note_id, raised |-> FALSE])
     IN  /\ fm_note_id' = st.fm
         /\ IF st.raised
            THEN /\ Ended
                 /\ hist' = [hist EXCEPT !.lastEnd = "raised"]
            ELSE /\ conn' = st.conn
                 /\ all_files_data_for_return' = st.all
                 /\ hist' = hist
                 /\ UNCHANGED <<files, files_data_from_db, scoreVars>>
                 /\ IF st.contents = <<>>
                    THEN /\ batch_start' = batch_start + EMBEDDING_BATCH_SIZE
                         /\ pc' = "embed"
                         /\ UNCHANGED <<batch_contents, batch_file_info, embeddings,
                                        attempt, delay>>
                    ELSE /\ batch_contents' = st.contents
                         /\ batch_file_info' = st.info
                         /\ batch_start' = batch_start
                         /\ StartEmbeddingsBatch(st.contents)
  /\ UNCHANGED <<path, body, gone, unreadable, notes, scores, args>>

EmbOutcomes == {"ok", "http4xx", "network"}

(* what else the provider may answer: a 5xx status, a 200 whose data has   *)
(* not one item per text, a 200 whose first item carries no vector         *)
GeneratorOutcomes == EmbOutcomes \cup {"http5xx", "malformed", "partial"}

(* generator.py 141-154: a RequestException is retried unless it carries a *)
(* response with a 4xx status                                              *)
Retryable_Also4xx(outcome) == outcome \in {"network", "http5xx", "http4xx"}

(* a loop that goes on after a good answer as well *)
Retryable_AlsoOk(outcome) == outcome \in {"network", "http5xx", "ok"}

Retryable(outcome) == outcome \in {"network", "http5xx"}

(* `delay *= 2` after the sleep (generator.py 153-154)                      *)
Backoff_Constant(d) == d

Backoff(d) == d * 2

(* result["data"] of a 200 response to the request for texts               *)
ResultData(outcome, texts) ==
  CASE outcome = "ok"      -> [k \in DOMAIN texts |-> JinaVector(texts[k])]
    [] outcome = "partial" -> [k \in DOMAIN texts |->
                                 IF k = 1 THEN NULL ELSE JinaVector(texts[k])]
    [] OTHER               -> <<>>

(* One iteration of the retry loop of get_jina_embeddings_batch            *)
(* (generator.py 121-160): one request and what the provider answers.      *)
EmbAttempt(outcome) ==
  /\ pc = "embed_call"
  /\ LET n     == Len(batch_contents)
         input == valid_texts(batch_contents)
         valid == Range(text_indices(batch_contents))
         entry == [batch  |-> batch_start,
                   docs   |-> {batch_file_info[i] : i \in valid},
                   input  |-> input,
                   wait   |-> IF Retryable(outcome) THEN delay ELSE 0,
                   status |-> outcome]
         done  == ~Retryable(outcome) \/ attempt + 1 = max_retries
         data_ok == Len(ResultData(outcome, input)) = Len(input)
     IN  /\ outcome = "ok" \/ hist.outage # "over"
         /\ hist' = [hist EXCEPT !.embLog = Append(@, entry),
                                 !.outage = Outage(outcome, done)]
         /\ IF Retryable(outcome)
            THEN /\ delay' = Backoff(delay)
                 /\ attempt' = attempt + 1
                 /\ IF attempt + 1 = max_retries
                    THEN embeddings' = Nones(n) /\ pc' = "embed_store"
                    ELSE embeddings' = embeddings /\ pc' = "embed_call"
            ELSE /\ embeddings' = IF outcome \in {"ok", "partial", "malformed"} /\ data_ok
                                  THEN PlaceEmbeddings(batch_contents,
                                                       text_indices(batch_contents),
                                                       ResultData(outcome, input))
                                  ELSE Nones(n)
                 /\ pc' = "embed_store"
                 /\ UNCHANGED <<attempt, delay>>
  /\ UNCHANGED <<vaultVars, dbVars, args, files, batch_start, files_data_from_db,
                 all_files_data_for_return, batch_contents, batch_file_info, scoreVars>>

(* INSERT INTO notes ... ON CONFLICT(note_id) DO UPDATE *)
UpsertNote(rows, row) ==
  IF \E k \in DOMAIN rows : rows[k].note_id = row.note_id
  THEN [k \in DOMAIN rows |-> IF rows[k].note_id = row.note_id THEN row ELSE rows[k]]
  ELSE Append(rows, row)

RECURSIVE StoreEmbeddings(_, _, _, _)
StoreEmbeddings(info, embs, i, st) ==
  IF i > Min(Len(info), Len(embs)) THEN st
  ELSE StoreEmbeddings(info, embs, i + 1,
         [rows |-> UpsertNote(st.rows, [note_id      |-> info[i].note_id,
                                        file_name    |-> info[i].file_path,
                                        content_hash |-> info[i].content_hash,
                                        embedding    |-> embs[i]]),
          all  |-> DictSet(st.all, info[i].file_path,
                           [hash      |-> info[i].content_hash,
                            embedding |-> embs[i],
                            note_id   |-> info[i].note_id])])

(* The end of a batch (embed_pipeline.py 130-158): the upserts and the     *)
(* commit.                                                                 *)
EmbedStore ==
  /\ pc = "embed_store"
  /\ LET st == StoreEmbeddings(batch_file_info, embeddings, 1,
                               [rows |-> conn.notes, all |-> all_files_data_for_return])
     IN  /\ conn' = [conn EXCEPT !.notes = st.rows]
         /\ notes' = st.rows
         /\ scores' = conn.scores
         /\ all_files_data_for_return' = st.all
         /\ hist' = [hist EXCEPT !.committed.docs =
                                   @ \cup {batch_file_info[i].note_id : i \in DOMAIN batch_file_info}]
  /\ batch_start' = batch_start + EMBEDDING_BATCH_SIZE
  /\ pc' = "embed"
  /\ batch_contents' = <<>>
  /\ batch_file_info' = <<>>
  /\ embeddings' = <<>>
  /\ attempt' = 0
  /\ delay' = 0
  /\ UNCHANGED <<vaultVars, args, files, files_data_from_db, scoreVars>>

(* After the last batch (embed_pipeline.py 160-183): the metadata rows,    *)
(* the last commit and the close.                                          *)
EmbedFinish ==
  /\ pc = "embed" /\ batch_start >= Len(files)
  /\ notes' = conn.notes
  /\ scores' = conn.scores
  /\ conn' = NoConn
  /\ pc' = "candidates"
  /\ UNCHANGED <<vaultVars, args, batch_start, embedVars, attempt, delay, scoreVars, hist>>

----------------------------------------------------------------------------
(* cli.main after the embedding stage, and score_candidates                *)

(* ai_scoring_batch_size of a direct caller, larger than the default cap   *)
DirectBatchSize == 3

(* cli.main passes ai_scoring_batch_size both as the batch size and as     *)
(* max_pairs_per_request; a direct caller of score_candidates that hands   *)
(* in pairs with their note ids sets the batch size and leaves the cap     *)
(* None.                                                                   *)
ai_scoring_batch_size == IF args.pairs_carry_ids THEN DirectBatchSize ELSE AI_SCORING_BATCH_SIZE

max_pairs_per_request == IF args.pairs_carry_ids THEN 0 ELSE AI_SCORING_BATCH_SIZE

(* facts about a pair at the time it is looked at, for the properties: the *)
(* note ids its two files carry and whether the scores table has a record  *)
(* for these two ids                                                       *)
TrueId(p) == IF Exists(p) THEN NoteIdAt(fm_note_id, p) ELSE 0

HasRecord(rows, ids) == \E r \in rows : {r.note_id_a, r.note_id_b} = ids

PairFacts(p) ==
  [source_path |-> p.source_path,
   target_path |-> p.target_path,
   ids         |-> {TrueId(p.source_path), TrueId(p.target_path)},
   had_record  |-> HasRecord(scores, {TrueId(p.source_path), TrueId(p.target_path)})]

(* cli.main 221-241 and score_candidates 58-108: the candidate pairs, the  *)
(* pairs whose two files exist, and, unless force_rescore, the pairs whose *)
(* two paths are not in the scores table yet.                              *)
ScoreCandidatesBegin ==
  /\ pc = "candidates"
  /\ LET candidates == generate_candidate_pairs(all_files_data_for_return,
                                                DEFAULT_SIMILARITY_THRESHOLD)
         IdOf(p) == IF args.pairs_carry_ids
                    THEN DictGet(all_files_data_for_return, p).note_id ELSE 0
         candidate_pairs ==
           [k \in DOMAIN candidates |->
              [source_path     |-> candidates[k].source_path,
               target_path     |-> candidates[k].target_path,
               jina_similarity |-> candidates[k].jina_similarity,
               source_note_id  |-> IdOf(candidates[k].source_path),
               target_note_id  |-> IdOf(candidates[k].target_path)]]
         BothExist(p) == Exists(p.source_path) /\ Exists(p.target_path)
         existing_pairs == {<<r.file_name_a, r.file_name_b>> : r \in scores}
                             \cup {<<r.file_name_b, r.file_name_a>> : r \in scores}
         need_score(p) == <<p.source_path, p.target_path>> \notin existing_pairs
         valid0 == SelectSeq(candidate_pairs, BothExist)
         valid  == IF ~args.force_rescore THEN SelectSeq(valid0, need_score) ELSE valid0
     IN  IF valid = <<>>
         THEN /\ Ended
              /\ hist' = [hist EXCEPT !.lastEnd = "done"]
         ELSE /\ valid_pairs' = valid
              /\ batch_start' = 0
              /\ pc' = "score"
              /\ hist' = hist
              /\ UNCHANGED <<conn, embedVars, attempt, delay, prompt_pairs, data, results>>
  /\ UNCHANGED <<vaultVars, notes, scores, args>>

(* One batch of score_candidates up to the request (link_scoring.py        *)
(* 113-162): the pairs whose files can be read, with their excerpts, and   *)
(* the request built from them.                                            *)
ScoreBatchBegin ==
  /\ pc = "score" /\ batch_start < Len(valid_pairs)
  /\ LET batch_pairs == SubSeq(valid_pairs, batch_start + 1,
                               Min(batch_start + ai_scoring_batch_size, Len(valid_pairs)))
         Readable(p) == CanRead(p.source_path) /\ CanRead(p.target_path)
         read == SelectSeq(batch_pairs, Readable)
         pp == [k \in DOMAIN read |->
                  [source_path    |-> read[k].source_path,
                   target_path    |-> read[k].target_path,
                   source_note_id |-> read[k].source_note_id,
                   target_note_id |-> read[k].target_note_id,
                   source_content |-> Take(body[DocAt(read[k].source_path)],
                                           max_content_length_for_ai),
                   target_content |-> Take(body[DocAt(read[k].target_path)],
                                           max_content_length_for_ai)]]
     IN  IF pp = <<>>
         THEN /\ batch_start' = batch_start + ai_scoring_batch_size
              /\ pc' = "score"
              /\ UNCHANGED <<prompt_pairs, data, attempt, delay>>
         ELSE /\ prompt_pairs' = pp
              /\ data' = build_ai_batch_request(pp, max_content_length_for_ai,
                                                max_pairs_per_request,
                                                AI_SCORING_MAX_CHARS_PER_NOTE,
                                                AI_SCORING_MAX_TOTAL_CHARS)
              /\ batch_start' = batch_start
              /\ pc' = "ai_call"
              /\ attempt' = 0
              /\ delay' = initial_delay
  /\ UNCHANGED <<vaultVars, dbVars, args, embedVars, valid_pairs, results, hist>>

AiFailures == {"http4xx", "network"}

(* `for attempt in range(max_retries)` with `if attempt == max_retries - 1` *)
(* (provider.py 69, 122): the attempt after which the loop gives up        *)
LastAttempt_OneMore(a) == a = max_retries

LastAttempt(a) == a = max_retries - 1

(* One iteration of the retry loop of call_ai_api_batch_for_relevance      *)
(* (provider.py 69-127): one request and what the provider answers.  An    *)
(* answered request is parsed against all of prompt_pairs; its response is *)
(* also saved to ai_responses, one row for each "ok" entry of the log.     *)
AiAttempt(outcome, response) ==
  /\ pc = "ai_call"
  /\ LET final == outcome = "ok" \/ LastAttempt(attempt)
         entry == [batch  |-> batch_start,
                   sent   |-> {PairFacts(data[i]) : i \in DOMAIN data},
                   pairs  |-> {PairFacts(prompt_pairs[i]) : i \in DOMAIN prompt_pairs},
                   status |-> outcome,
                   final  |-> final]
     IN  /\ outcome = "ok" \/ hist.outage # "over"
         /\ hist' = [hist EXCEPT !.aiLog = Append(@, entry),
                                 !.outage = Outage(outcome, final)]
         /\ IF outcome = "ok"
            THEN /\ results' = parse_ai_batch_response(response, prompt_pairs)
                 /\ pc' = "score_store"
                 /\ UNCHANGED <<attempt, delay>>
            ELSE IF final
                 THEN /\ results' = <<>>
                      /\ pc' = "score_store"
                      /\ UNCHANGED <<attempt, delay>>
                 ELSE /\ results' = results
                      /\ pc' = "ai_call"
                      /\ attempt' = attempt + 1
                      /\ delay' = delay * 2
  /\ UNCHANGED <<vaultVars, dbVars, args, batch_start, embedVars, valid_pairs,
                 prompt_pairs, data>>

(* next((pp.get(key) for pp in prompt_pairs if pp[path_key] == path), "")  *)
FirstSourceId(pps, src_path) ==
  LET hit == {k \in DOMAIN pps : pps[k].source_path = src_path}
  IN  pps[CHOOSE k \in hit : \A m \in hit : k <= m].source_note_id

FirstTargetId(pps, tgt_path) ==
  LET hit == {k \in DOMAIN pps : pps[k].target_path = tgt_path}
  IN  pps[CHOOSE k \in hit : \A m \in hit : k <= m].target_note_id

(* INSERT INTO scores ... ON CONFLICT(note_id_a, note_id_b) DO UPDATE SET  *)
(* ai_score = excluded.ai_score                                            *)
UpsertScore(rows, row) ==
  IF \E r \in rows : r.note_id_a = row.note_id_a /\ r.note_id_b = row.note_id_b
  THEN {IF r.note_id_a = row.note_id_a /\ r.note_id_b = row.note_id_b
        THEN [r EXCEPT !.ai_score = row.ai_score] ELSE r : r \in rows}
  ELSE rows \cup {row}

RECURSIVE UpsertScores(_, _)
UpsertScores(rows, new) ==
  IF new = <<>> THEN rows
  ELSE UpsertScores(UpsertScore(rows, Head(new)), Tail(new))

(* The end of a batch (link_scoring.py 184-212): the rows of the results,  *)
(* executemany and the commit.  A pair handed in without note ids gives a  *)
(* row whose note_id_a is None: the NOT NULL constraint of the scores      *)
(* table makes executemany raise IntegrityError, which nothing catches.    *)
ScoreStore ==
  /\ pc = "score_store"
  /\ LET rel_insert_rows ==
           [k \in DOMAIN results |->
              [note_id_a   |-> FirstSourceId(prompt_pairs, results[k].source_path),
               file_name_a |-> results[k].source_path,
               note_id_b   |-> FirstTargetId(prompt_pairs, results[k].target_path),
               file_name_b |-> results[k].target_path,
               ai_score    |-> results[k].ai_score]]
         not_null == \A k \in DOMAIN rel_insert_rows :
                        /\ rel_insert_rows[k].note_id_a # 0
                        /\ rel_insert_rows[k].note_id_b # 0
     IN  IF ~not_null
         THEN /\ Ended
              /\ hist' = [hist EXCEPT !.lastEnd = "raised"]
              /\ UNCHANGED <<notes, scores>>
         ELSE /\ scores' = UpsertScores(scores, rel_insert_rows)
              /\ hist' = [hist EXCEPT !.committed.pairs =
                                        @ \cup {<<prompt_pairs[i].source_path,
                                                  prompt_pairs[i].target_path>> :
                                                  i \in DOMAIN prompt_pairs}]
              /\ batch_start' = batch_start + ai_scoring_batch_size
              /\ pc' = "score"
              /\ prompt_pairs' = <<>>
              /\ data' = <<>>
              /\ results' = <<>>
              /\ attempt' = 0
              /\ delay' = 0
              /\ UNCHANGED <<notes, conn, embedVars, valid_pairs>>
  /\ UNCHANGED <<vaultVars, args>>

(* After the last batch (link_scoring.py 214-215, cli.main 243-270)        *)
ScoreFinish ==
  /\ pc = "score" /\ batch_start >= Len(valid_pairs)
  /\ Ended
  /\ hist' = [hist EXCEPT !.lastEnd = "done"]
  /\ UNCHANGED <<vaultVars, notes, scores, args>>

(* The process is killed while a request to a provider is in flight        *)
Interrupt ==
  /\ pc \in {"embed_call", "ai_call"}
  /\ Ended
  /\ hist' = [hist EXCEPT !.lastEnd = "interrupted",
                          !.outage = IF @ = "on" THEN "over" ELSE @]
  /\ UNCHANGED <<vaultVars, notes, scores, args>>

----------------------------------------------------------------------------

Next ==
  \/ \E d \in Docs, p \in Paths : Rename(d, p)
  \/ \E d, e \in Docs : MoveOnto(d, e)
  \/ \E d \in Docs, b \in BodyTexts : Edit(d, b)
  \/ \E d \in Docs : Delete(d)
  \/ \E d \in Docs : Corrupt(d)
  \/ \E force \in BOOLEAN : StartRun(force)
  \/ EmbedBatchBegin
  \/ \E outcome \in EmbOutcomes : EmbAttempt(outcome)
  \/ EmbedStore
  \/ EmbedFinish
  \/ ScoreCandidatesBegin
  \/ ScoreBatchBegin
  \/ \E outcome \in AiFailures \cup {"ok"}, response \in AiResponses :
        AiAttempt(outcome, response)
  \/ ScoreStore
  \/ ScoreFinish
  \/ Interrupt

Spec == Init /\ [][Next]_vars

----------------------------------------------------------------------------
(* Properties                                                              *)

(* The run in progress (or the one that has just ended) is the second of   *)
(* two runs in a row without force over documents that did not change      *)
(* since the first one started, and the first one was not killed.          *)
SecondRunUnchanged ==
  /\ hist.unchanged /\ ~hist.changed
  /\ hist.prevEnd \in {"done", "raised"}
  /\ ~hist.prevForce /\ ~args.force_rescore

SamePair(f, g) == f.source_path = g.source_path /\ f.target_path = g.target_path

(* the final entries of the log of the AI provider that are failures *)
FailedBatches(log) == {i \in DOMAIN log : log[i].final /\ log[i].status # "ok"}

(* C1: the second of two runs in a row without force over unchanged        *)
(* documents sends no request to the embedding provider and no request to  *)
(* the AI provider, whatever the outcomes of the first run's requests.     *)
C1_SecondRunSendsNoRequest ==
  SecondRunUnchanged => hist.embLog = <<>> /\ hist.aiLog = <<>>

(* C2: after the second of two runs in a row without force over unchanged  *)
(* documents, the rows of notes and of scores are those the first run      *)
(* left.                                                                   *)
C2_SecondRunLeavesRowsUnchanged ==
  (pc = "idle" /\ SecondRunUnchanged /\ hist.lastEnd = "done")
    => /\ Range(notes) = Range(hist.prevNotes)
       /\ scores = hist.prevScores

(* C3: without force, no request to the AI provider carries a pair whose   *)
(* two note ids already have a relevance record, renamed or not.           *)
C3_RecordedPairNotRequested ==
  ~args.force_rescore
    => \A i \in DOMAIN hist.aiLog : \A f \in hist.aiLog[i].sent : ~f.had_record

(* C4: no request to the embedding provider carries a document whose       *)
(* record, found by its note_id, has the same content hash and a vector,   *)
(* and differs only by its file name (the document was renamed or moved).  *)
C4_RenamedDocumentNotEmbeddedAgain ==
  \A i \in DOMAIN hist.embLog : \A f \in hist.embLog[i].docs :
    ~\E k \in DOMAIN hist.prevNotes :
        /\ hist.prevNotes[k].note_id = f.note_id
        /\ hist.prevNotes[k].content_hash = f.content_hash
        /\ hist.prevNotes[k].embedding # NULL
        /\ hist.prevNotes[k].file_name # f.file_path

(* C5: in a run that completes and whose requests to the AI provider are   *)
(* all answered, every pair handed to build_ai_batch_request is in the     *)
(* prompt text of exactly one request: a pair the cap or the budget cuts   *)
(* is carried into a later request.                                        *)
C5_EveryPairInExactlyOneRequest ==
  (/\ pc = "idle" /\ hist.lastEnd = "done"
   /\ \A i \in DOMAIN hist.aiLog : hist.aiLog[i].status = "ok")
    => \A i \in DOMAIN hist.aiLog : \A f \in hist.aiLog[i].pairs :
         Cardinality({j \in DOMAIN hist.aiLog :
                        \E g \in hist.aiLog[j].sent : SamePair(f, g)}) = 1

(* C6: when a run completes, every pair of a batch whose request finally   *)
(* failed has a relevance record, with ai_score = 0.                       *)
C6_FailedBatchRecordedWithZero ==
  (pc = "idle" /\ hist.lastEnd = "done")
    => \A i \in FailedBatches(hist.aiLog) : \A f \in hist.aiLog[i].pairs :
         \E r \in scores : {r.note_id_a, r.note_id_b} = f.ids /\ r.ai_score = 0

(* C7: a request the AI provider answers with a 4xx status is the last one *)
(* sent for its batch: no retry follows.                                   *)
C7_NoRetryAfter4xx ==
  \A i, j \in DOMAIN hist.aiLog :
    (i < j /\ hist.aiLog[i].status = "http4xx")
      => hist.aiLog[j].batch # hist.aiLog[i].batch

(* C8: without force, no request to the AI provider carries a pair whose   *)
(* scoring failed in an earlier run.                                       *)
C8_FailedPairWaitsForForce ==
  ~args.force_rescore
    => \A i \in DOMAIN hist.aiLog : \A f \in hist.aiLog[i].sent :
         f.ids \notin hist.failedPrev

(* C9: no run is ended by an exception of process_and_embed_notes or of    *)
(* score_candidates: a document that cannot be read, a batch that cannot   *)
(* be persisted, are passed over and the run completes.                    *)
C9_LocalFailureNeverEndsTheRun ==
  hist.lastEnd # "raised"

(* C10: after a run that was killed, the records of the batches it had     *)
(* committed are in the store, and the next run (without force, over       *)
(* unchanged documents) sends no request for a document of those batches   *)
(* whose record holds a vector, nor for a pair of those batches.           *)
C10_CommittedBatchesAreResumed ==
  (/\ hist.prevEnd = "interrupted"
   /\ hist.unchanged /\ ~hist.changed /\ ~args.force_rescore)
    => /\ \A d \in hist.resume.docs :
            \E k \in DOMAIN hist.prevNotes : hist.prevNotes[k].note_id = d
       /\ \A i \in DOMAIN hist.embLog : \A f \in hist.embLog[i].docs :
            f.note_id \in hist.resume.docs
              => \A k \in DOMAIN hist.prevNotes :
                   hist.prevNotes[k].note_id = f.note_id
                     => hist.prevNotes[k].embedding = NULL
       /\ \A i \in DOMAIN hist.aiLog : \A f \in hist.aiLog[i].sent :
            <<f.source_path, f.target_path>> \notin hist.resume.pairs

----------------------------------------------------------------------------
(* The table process_and_embed_notes loaded when the current run started   *)
LoadedAtStart == LoadNotes(hist.prevNotes, <<>>)

(* the document f of a request has a stored record under its path with the *)
(* hash the run computed for it                                            *)
HasSameHashRecord(f) ==
  /\ DictHas(LoadedAtStart, f.file_path)
  /\ DictGet(LoadedAtStart, f.file_path).hash = f.content_hash

(* the documents of the embedding requests of the current run              *)
RequestedDocs == UNION {hist.embLog[i].docs : i \in DOMAIN hist.embLog}

C12_NoRecordWithoutDocument ==
  (pc = "candidates" /\ ~hist.changed) =>
    \A k \in DOMAIN notes : Exists(notes[k].file_name)

(* C13: after any sequence of runs, the relevance store holds at most one  *)
(* record per unordered pair of notes: never both (a, b) and (b, a).       *)
C13_OneRecordPerUnorderedPair ==
  \A r1 \in scores : \A r2 \in scores :
    {r1.note_id_a, r1.note_id_b} = {r2.note_id_a, r2.note_id_b} => r1 = r2

(* C14: a run of score_candidates without force_rescore never changes the  *)
(* ai_score of a relevance record that existed before the run.             *)
C14_PlainRunKeepsRecordedScores ==
  ~args.force_rescore =>
    \A r1 \in hist.prevScores : \A r2 \in scores :
      (r1.note_id_a = r2.note_id_a /\ r1.note_id_b = r2.note_id_b)
        => r1.ai_score = r2.ai_score

----------------------------------------------------------------------------
(* The functions of ai_scoring/scorer.py called on their own               *)

(* tokens of a reply text, and pairs handed to one call *)
MaxReplyLen == 4
MaxExpected == 3

ReplyNumbers == {0, 1, 7, 10, 11}

ReplyTokens == {Num(n) : n \in ReplyNumbers} \cup {Comma, Word}

ReplyTexts == UNION {[1..n -> ReplyTokens] : n \in 0..MaxReplyLen}

(* the response bodies: without the provider's reply field, or with a text *)
NoResponse == [field |-> FALSE, text |-> <<>>]

ScorerResponses == {NoResponse} \cup [field : {TRUE}, text : ReplyTexts]

(* note texts shorter and longer than the excerpt limits                   *)
NoteTexts == { <<"a">>, <<"a", "b", "c", "d">> }

(* the i-th pair handed to a call, with the two note texts *)
PromptPair(i, src, tgt) ==
  [source_path    |-> 2 * i - 1,
   target_path    |-> 2 * i,
   source_note_id |-> 2 * i - 1,
   target_note_id |-> 2 * i,
   source_content |-> src,
   target_content |-> tgt]

PromptPairLists ==
  UNION { {[i \in 1..n |-> PromptPair(i, c[i][1], c[i][2])] :
             c \in [1..n -> NoteTexts \X NoteTexts]} : n \in 0..MaxExpected }

(* the keyword arguments of build_ai_batch_request; 0 stands for None      *)
RequestLimits ==
  [max_content_length : {1, 4},
   max_pairs          : 0..MaxExpected,
   max_chars_per_note : {0, 2},
   max_total_chars    : {0, 33, 70, 100}]

NoLimits ==
  [max_content_length |-> 0, max_pairs |-> 0,
   max_chars_per_note |-> 0, max_total_chars |-> 0]

(* Before a call: the arguments are in prompt_pairs, args and hist (the    *)
(* response body or reply text, and expected_count); nothing else of the   *)
(* pipeline is in use.                                                     *)
InitScorer ==
  /\ path = [d \in Docs |-> d]
  /\ fm_note_id = [d \in Docs |-> 0]
  /\ body = [d \in Docs |-> <<"a">>]
  /\ gone = {}
  /\ unreadable = {}
  /\ notes = <<>>
  /\ scores = {}
  /\ conn = [notes |-> <<>>, scores |-> {}]
  /\ files = <<>>
  /\ batch_start = 0
  /\ files_data_from_db = <<>>
  /\ all_files_data_for_return = <<>>
  /\ batch_contents = <<>>
  /\ batch_file_info = <<>>
  /\ embeddings = <<>>
  /\ attempt = 0
  /\ delay = 0
  /\ valid_pairs = <<>>
  /\ data = <<>>
  /\ results = <<>>
  /\ \/ /\ pc = "call_build"
        /\ prompt_pairs \in PromptPairLists
        /\ args \in RequestLimits
        /\ hist = [response |-> NoResponse, expected_count |-> 0]
     \/ /\ pc = "call_parse"
        /\ prompt_pairs \in {[i \in 1..n |-> PromptPair(i, <<"a">>, <<"a">>)] :
                               n \in 0..MaxExpected}
        /\ args = NoLimits
        /\ hist \in [response : ScorerResponses, expected_count : {0}]
     \/ /\ pc = "call_extract"
        /\ prompt_pairs = <<>>
        /\ args = NoLimits
        /\ hist \in [response : [field : {TRUE}, text : ReplyTexts],
                     expected_count : 0..MaxExpected]

(* build_ai_batch_request(prompt_pairs, ...): data is what it returns      *)
BuildCall ==
  /\ pc = "call_build"
  /\ data' = build_ai_batch_request(prompt_pairs, args.max_content_length,
                                    args.max_pairs, args.max_chars_per_note,
                                    args.max_total_chars)
  /\ pc' = "ret_build"
  /\ UNCHANGED <<vaultVars, dbVars, args, batch_start, embedVars, attempt, delay,
                 valid_pairs, prompt_pairs, results, hist>>

(* parse_ai_batch_response(response_data, prompt_pairs): results is what   *)
(* it returns                                                              *)
ParseCall ==
  /\ pc = "call_parse"
  /\ results' = parse_ai_batch_response(hist.response, prompt_pairs)
  /\ pc' = "ret_parse"
  /\ UNCHANGED <<vaultVars, dbVars, args, batch_start, embedVars, attempt, delay,
                 valid_pairs, prompt_pairs, data, hist>>

(* extract_scores_from_text(text, expected_count): results is the list of  *)
(* scores it returns                                                       *)
ExtractCall ==
  /\ pc = "call_extract"
  /\ results' = extract_scores_from_text(hist.response.text, hist.expected_count)
  /\ pc' = "ret_extract"
  /\ UNCHANGED <<vaultVars, dbVars, args, batch_start, embedVars, attempt, delay,
                 valid_pairs, prompt_pairs, data, hist>>

NextScorer == BuildCall \/ ParseCall \/ ExtractCall

SpecScorer == InitScorer /\ [][NextScorer]_vars

----------------------------------------------------------------------------
(* Properties of the functions of ai_scoring/scorer.py                     *)

(* the reply is a list of numbers with one comma between neighbours        *)
IsCommaList(text) ==
  /\ Len(text) % 2 = 1
  /\ \A i \in DOMAIN text : IF i % 2 = 1 THEN text[i].k = "num" ELSE text[i] = Comma

(* the numbers of a comma list, in order *)
ListNumbers(text) == [i \in 1..((Len(text) + 1) \div 2) |-> text[2 * i - 1].v]

(* a number token that is a score *)
IsScoreToken(t) == t.k = "num" /\ t.v \in 0..10

(* the score tokens of a reply, in order of appearance *)
ScoreTokens(text) == SelectSeq(text, IsScoreToken)

(* the first n of the numbers s, with zeros where s has fewer than n       *)
FirstThenZeros(s, n) == [i \in 1..n |-> IF i <= Len(s) THEN s[i] ELSE 0]

(* C15: for every response body, parse_ai_batch_response returns exactly   *)
(* one result per input pair, in the order of the input pairs, each with   *)
(* an integer ai_score in 0..10.                                           *)
C15_OneResultPerPair ==
  pc = "ret_parse" =>
    /\ Len(results) = Len(prompt_pairs)
    /\ \A i \in DOMAIN results :
         /\ results[i].source_path = prompt_pairs[i].source_path
         /\ results[i].target_path = prompt_pairs[i].target_path
         /\ results[i].ai_score \in 0..10

(* C16: when the reply yields k < N scores, extract_scores_from_text       *)
(* returns those k scores followed by N - k zeros; stated for a reply that *)
(* is a comma-separated list of k scores, the case the claim names.        *)
C16_FewerScoresPaddedWithZeros ==
  ( /\ pc = "ret_extract"
    /\ IsCommaList(hist.response.text)
    /\ \A i \in DOMAIN hist.response.text :
         hist.response.text[i].k = "num" => hist.response.text[i].v \in 0..10
    /\ Len(ListNumbers(hist.response.text)) < hist.expected_count )
  => results = FirstThenZeros(ListNumbers(hist.response.text), hist.expected_count)

C18_CommaListReturnedAsIs ==
  ( /\ pc = "ret_extract"
    /\ IsCommaList(hist.response.text)
    /\ \A i \in DOMAIN hist.response.text :
         hist.response.text[i].k = "num" => hist.response.text[i].v \in 0..10
    /\ Len(ListNumbers(hist.response.text)) = hist.expected_count )
  => results = ListNumbers(hist.response.text)

(* the reply "10,0" for two pairs gave 10 and 0                            *)
C18_TwoScoresReturned ==
  /\ pc = "ret_extract"
  /\ hist.expected_count = 2
  /\ hist.response.text = <<Num(10), Comma, Num(0)>>
  /\ results = <<10, 0>>

(* C19: when the reply is free text, not a pure comma list,                *)
(* extract_scores_from_text returns the standalone integer tokens in 0..10 *)
(* in order of appearance (the first N of them), and N zeros when there    *)
(* are none.                                                               *)
C19_FreeTextGivesStandaloneScores ==
  (pc = "ret_extract" /\ ~IsCommaList(hist.response.text)) =>
    results = FirstThenZeros([i \in DOMAIN ScoreTokens(hist.response.text) |->
                                ScoreTokens(hist.response.text)[i].v],
                             hist.expected_count)

(* the limits build_ai_batch_request works with: an argument left None     *)
(* stands for the value of config.py                                       *)
PairLimit == OrDefault(args.max_pairs, AI_SCORING_BATCH_SIZE)

ExcerptLimit ==
  Min(OrDefault(args.max_chars_per_note, AI_SCORING_MAX_CHARS_PER_NOTE),
      args.max_content_length)

TotalLimit == OrDefault(args.max_total_chars, AI_SCORING_MAX_TOTAL_CHARS)

(* the summed length of the blocks of the first n input pairs, each with   *)
(* its two excerpts cut to the excerpt limit                               *)
RECURSIVE BlocksLength(_, _)
BlocksLength(pairs, n) ==
  IF n = 0 THEN 0
  ELSE BlocksLength(pairs, n - 1)
         + PairTextLen(Take(pairs[n].source_content, ExcerptLimit),
                       Take(pairs[n].target_content, ExcerptLimit))

(* C20: build_ai_batch_request puts into the request the longest prefix of *)
(* the input pairs such that the number of pairs is at most max_pairs and  *)
(* the summed length of the included pair blocks is at most                *)
(* max_total_chars; inside that prefix no pair is reordered or skipped,    *)
(* and each note excerpt is cut to at most min(max_chars_per_note,         *)
(* max_content_length) characters.                                         *)
C20_LongestPrefixWithinLimits ==
  pc = "ret_build" =>
    /\ Len(data) <= PairLimit
    /\ Len(data) <= Len(prompt_pairs)
    /\ BlocksLength(prompt_pairs, Len(data)) <= TotalLimit
    /\ (Len(data) < PairLimit /\ Len(data) < Len(prompt_pairs))
         => BlocksLength(prompt_pairs, Len(data) + 1) > TotalLimit
    /\ \A i \in DOMAIN data :
         /\ data[i].source_path = prompt_pairs[i].source_path
         /\ data[i].target_path = prompt_pairs[i].target_path
         /\ data[i].source_content = Take(prompt_pairs[i].source_content, ExcerptLimit)
         /\ data[i].target_content = Take(prompt_pairs[i].target_content, ExcerptLimit)
         /\ Len(data[i].source_content) <= ExcerptLimit
         /\ Len(data[i].target_content) <= ExcerptLimit

(* three pairs within the cap of three, of which the budget let two into   *)
(* the request, the first with an excerpt that was cut                     *)
C20_BudgetCutAfterTwoPairs ==
  /\ pc = "ret_build"
  /\ Len(prompt_pairs) = 3
  /\ args.max_pairs = 3
  /\ Len(data) = 2
  /\ Len(data[1].source_content) < Len(prompt_pairs[1].source_content)

----------------------------------------------------------------------------
(* Properties of the two retry loops                                       *)

(* the pairs of a logged scoring request, by their paths                   *)
SentPaths(e) == {<<f.source_path, f.target_path>> : f \in e.sent}

(* C21: on network or 5xx failures call_ai_api_batch_for_relevance resends *)
(* the same whole-batch request, sends at most max_retries requests for a  *)
(* batch, and sends no request after the first successful response.        *)
C21_BatchRetriedWholeAndBounded ==
  /\ \A i \in DOMAIN hist.aiLog :
       /\ Cardinality({j \in DOMAIN hist.aiLog :
                         hist.aiLog[j].batch = hist.aiLog[i].batch}) <= max_retries
       /\ \A j \in DOMAIN hist.aiLog :
            (i < j /\ hist.aiLog[j].batch = hist.aiLog[i].batch)
              => /\ hist.aiLog[i].status # "ok"
                 /\ SentPaths(hist.aiLog[j]) = SentPaths(hist.aiLog[i])
  /\ ( /\ hist.aiLog # <<>>
       /\ hist.lastEnd = "running"
       /\ hist.aiLog[Len(hist.aiLog)].status = "network"
       /\ Cardinality({j \in DOMAIN hist.aiLog :
                         hist.aiLog[j].batch = hist.aiLog[Len(hist.aiLog)].batch})
            < max_retries )
     => pc = "ai_call"

(* a batch was sent three times: two network failures, then an answer      *)
C21_AnsweredOnThirdRequest ==
  \E i \in DOMAIN hist.aiLog :
    /\ i + 2 \in DOMAIN hist.aiLog
    /\ hist.aiLog[i].status = "network"
    /\ hist.aiLog[i + 1].status = "network"
    /\ hist.aiLog[i + 2].status = "ok"
    /\ hist.aiLog[i + 2].batch = hist.aiLog[i].batch
    /\ hist.aiLog[i + 1].batch = hist.aiLog[i].batch

----------------------------------------------------------------------------
(* get_jina_embeddings_batch of embeddings/generator.py called on its own  *)

(* texts handed to one call *)
MaxTexts == 3

GeneratorTexts == { <<>>, <<" ">>, <<"a">>, <<"a", "b">> }

TextLists == UNION {[1..n -> GeneratorTexts] : n \in 0..MaxTexts}

(* Before a call: the texts are in batch_contents; batch_file_info names   *)
(* the i-th text i, and hist logs the requests of the call: embLog those of *)
(* get_jina_embeddings_batch, singleLog those of get_jina_embedding.        *)
InitGenerator ==
  /\ path = [d \in Docs |-> d]
  /\ fm_note_id = [d \in Docs |-> 0]
  /\ body = [d \in Docs |-> <<"a">>]
  /\ gone = {}
  /\ unreadable = {}
  /\ notes = <<>>
  /\ scores = {}
  /\ conn = [notes |-> <<>>, scores |-> {}]
  /\ pc = "call_embed"
  /\ args = [force_rescore |-> FALSE, pairs_carry_ids |-> FALSE]
  /\ files = <<>>
  /\ batch_start = 0
  /\ files_data_from_db = <<>>
  /\ all_files_data_for_return = <<>>
  /\ batch_contents \in TextLists
  /\ batch_file_info =
       [i \in DOMAIN batch_contents |->
          [file_path    |-> i,
           content_hash |-> calculate_hash_from_content(ContentToHash(batch_contents[i])),
           note_id      |-> i]]
  /\ embeddings = <<>>
  /\ attempt = 0
  /\ delay = 0
  /\ valid_pairs = <<>>
  /\ prompt_pairs = <<>>
  /\ data = <<>>
  /\ results = <<>>
  /\ hist = [embLog |-> <<>>, outage |-> "none", singleLog |-> <<>>]

(* get_jina_embeddings_batch(texts, ...) up to its first request           *)
GeneratorCall ==
  /\ pc = "call_embed"
  /\ StartEmbeddingsBatch(batch_contents)
  /\ UNCHANGED <<vaultVars, dbVars, args, files, batch_start, files_data_from_db,
                 all_files_data_for_return, batch_contents, batch_file_info,
                 scoreVars, hist>>

(* get_jina_embedding(text, ...) up to its first request (generator.py     *)
(* 27-42), text the only element of batch_contents; what the call returns  *)
(* is kept in embeddings, NULL for None.                                   *)
SingleCall ==
  /\ pc = "call_embed"
  /\ Len(batch_contents) = 1
  /\ IF IsBlank(batch_contents[1])
     THEN /\ embeddings' = NULL
          /\ pc' = "single_ret"
          /\ UNCHANGED <<attempt, delay>>
     ELSE /\ embeddings' = <<>>
          /\ pc' = "single_call"
          /\ attempt' = 0
          /\ delay' = initial_delay
  /\ UNCHANGED <<vaultVars, dbVars, args, files, batch_start, files_data_from_db,
                 all_files_data_for_return, batch_contents, batch_file_info,
                 scoreVars, hist>>

(* One iteration of the retry loop of get_jina_embedding (generator.py     *)
(* 43-83): one request for [text] and what the provider answers.           *)
SingleAttempt(outcome) ==
  /\ pc = "single_call"
  /\ LET input  == <<batch_contents[1]>>
         entry  == [batch  |-> batch_start,
                    docs   |-> {},
                    input  |-> input,
                    wait   |-> IF Retryable(outcome) THEN delay ELSE 0,
                    status |-> outcome]
         done   == ~Retryable(outcome) \/ attempt + 1 = max_retries
         result == ResultData(outcome, input)
     IN  /\ outcome = "ok" \/ hist.outage # "over"
         /\ hist' = [hist EXCEPT !.singleLog = Append(@, entry),
                                 !.outage = Outage(outcome, done)]
         /\ IF Retryable(outcome)
            THEN /\ delay' = Backoff(delay)
                 /\ attempt' = attempt + 1
                 /\ IF attempt + 1 = max_retries
                    THEN embeddings' = NULL /\ pc' = "single_ret"
                    ELSE embeddings' = embeddings /\ pc' = "single_call"
            ELSE /\ embeddings' = IF /\ outcome \in {"ok", "partial", "malformed"}
                                     /\ result # <<>>
                                     /\ result[1] # NULL
                                  THEN result[1]
                                  ELSE NULL
                 /\ pc' = "single_ret"
                 /\ UNCHANGED <<attempt, delay>>
  /\ UNCHANGED <<vaultVars, dbVars, args, files, batch_start, files_data_from_db,
                 all_files_data_for_return, batch_contents, batch_file_info, scoreVars>>

NextGenerator ==
  \/ GeneratorCall
  \/ \E outcome \in GeneratorOutcomes : EmbAttempt(outcome)
  \/ SingleCall
  \/ \E outcome \in GeneratorOutcomes : SingleAttempt(outcome)

SpecGenerator == InitGenerator /\ [][NextGenerator]_vars

(* the call has returned: embeddings is its result                         *)
Returned == pc = "embed_store"

(* C22: get_jina_embeddings_batch returns a list of the same length as its *)
(* input, and position i of the result is either null or the vector the    *)
(* provider returned for input text i, for every input list and every      *)
(* provider outcome.                                                       *)
C22_SameLengthAndOrder ==
  Returned =>
    /\ Len(embeddings) = Len(batch_contents)
    /\ \A i \in DOMAIN embeddings :
         embeddings[i] = NULL \/ embeddings[i] = JinaVector(batch_contents[i])

(* a blank text before two different texts, all answered: the vectors sit  *)
(* at the positions of their texts                                         *)
C22_VectorsAfterBlankInPlace ==
  /\ Returned
  /\ batch_contents = << <<" ">>, <<"a">>, <<"a", "b">> >>
  /\ embeddings = << NULL, JinaVector(<<"a">>), JinaVector(<<"a", "b">>) >>

(* C23: an empty or whitespace-only input text yields null at its position *)
(* in the result of get_jina_embeddings_batch and is never included in the *)
(* request sent to the embedding provider; when every input is empty no    *)
(* request is sent at all.                                                 *)
C23_BlankTextNeverSent ==
  /\ Returned => \A i \in DOMAIN batch_contents :
                   IsBlank(batch_contents[i]) => embeddings[i] = NULL
  /\ \A j \in DOMAIN hist.embLog :
       \A k \in DOMAIN hist.embLog[j].input : ~IsBlank(hist.embLog[j].input[k])
  /\ (\A i \in DOMAIN batch_contents : IsBlank(batch_contents[i])) => hist.embLog = <<>>

(* an empty text, a text and a whitespace text: one request with the one   *)
(* text, answered                                                          *)
C23_RequestWithoutTheBlankTexts ==
  /\ Returned
  /\ batch_contents = << <<>>, <<"a", "b">>, <<" ">> >>
  /\ Len(hist.embLog) = 1
  /\ hist.embLog[1].input = << <<"a", "b">> >>
  /\ embeddings = << NULL, JinaVector(<<"a", "b">>), NULL >>

RECURSIVE Pow2(_)
Pow2(n) == IF n = 0 THEN 1 ELSE 2 * Pow2(n - 1)

(* C25: under repeated transient failures (network error or 5xx)           *)
(* get_jina_embeddings_batch sends at most max_retries requests, doubling  *)
(* the wait after each failed attempt starting from initial_delay, then    *)
(* returns null for every slot; the loop is bounded and ends in a return.  *)
C25_BoundedRetriesWithBackoff ==
  /\ Len(hist.embLog) <= max_retries
  /\ \A j \in DOMAIN hist.embLog :
       Retryable(hist.embLog[j].status) =>
         hist.embLog[j].wait = initial_delay * Pow2(j - 1)
  /\ ( /\ Len(hist.embLog) = max_retries
       /\ Retryable(hist.embLog[max_retries].status) )
     => (Returned /\ embeddings = Nones(Len(batch_contents)))

(* max_retries requests, all failed by the network or a 5xx, the waits     *)
(* doubling, and null for the two texts                                    *)
C25_GaveUpAfterMaxRetries ==
  /\ Returned
  /\ Len(hist.embLog) = max_retries
  /\ \A j \in DOMAIN hist.embLog : hist.embLog[j].status \in {"network", "http5xx"}
  /\ hist.embLog[max_retries].wait = 2 * hist.embLog[max_retries - 1].wait
  /\ embeddings = << NULL, NULL >>

----------------------------------------------------------------------------
(* Properties of the stored fingerprints                                   *)

(* C26: after process_and_embed_notes completes, for every scanned         *)
(* document that exists, the stored content_hash equals the document's     *)
(* live fingerprint, whether the embedding request for it succeeded or     *)
(* failed: the row of the document, which is the row under its note_id,    *)
(* holds the fingerprint of its content.  The vault is the one the run     *)
(* scanned: a run during which the vault changed is left aside.            *)
C26_StoredHashIsLiveFingerprint ==
  (pc = "candidates" /\ ~hist.changed) =>
    \A d \in Docs \ gone :
      \E k \in DOMAIN notes :
        /\ notes[k].note_id = fm_note_id[d]
        /\ notes[k].content_hash = calculate_hash_from_content(ContentToHash(body[d]))

(* C27: two documents at different paths with byte-identical hashable      *)
(* content: once one of them has been embedded, process_and_embed_notes    *)
(* reuses its cached vector for the other one and sends no second request. *)
C27_SameContentEmbeddedOnce ==
  ( /\ pc = "embed_store"
    /\ hist.embLog # <<>>
    /\ hist.embLog[Len(hist.embLog)].batch = batch_start )
  => \A f \in hist.embLog[Len(hist.embLog)].docs :
       ~ \E k \in DOMAIN conn.notes :
            /\ conn.notes[k].content_hash = f.content_hash
            /\ conn.notes[k].embedding # NULL
            /\ conn.notes[k].note_id # f.note_id
            /\ conn.notes[k].file_name # f.file_path

(* C28: a document whose body lacks the boundary marker is excluded from   *)
(* the run: it is not embedded, not recorded, and appears in no candidate  *)
(* pair.                                                                   *)
C28_DocumentWithoutMarkerExcluded ==
  \A d \in Docs :
    extract_content_for_hashing(body[d]) = NULL =>
      /\ \A j \in DOMAIN hist.embLog :
           \A f \in hist.embLog[j].docs : f.note_id # fm_note_id[d]
      /\ \A k \in DOMAIN notes : notes[k].note_id # fm_note_id[d]
      /\ \A k \in DOMAIN valid_pairs :
           path[d] \notin {valid_pairs[k].source_path, valid_pairs[k].target_path}

----------------------------------------------------------------------------
(* extract_content_for_hashing on its own: the texts are sequences of at   *)
(* most MaxBodyLen tokens, a token a character or the marker.              *)

MaxBodyLen == 5

HasherChars == {"a", " ", "\r", "\n", HASH_BOUNDARY_MARKER}

HasherTexts == UNION {[1..n -> HasherChars] : n \in 0..MaxBodyLen}

(* Before a call: hist holds the argument text_body, and the value the     *)
(* call returns once it has returned.                                      *)
InitHasher ==
  /\ path = [d \in Docs |-> d]
  /\ fm_note_id = [d \in Docs |-> 0]
  /\ body = [d \in Docs |-> <<"a">>]
  /\ gone = {}
  /\ unreadable = {}
  /\ notes = <<>>
  /\ scores = {}
  /\ conn = [notes |-> <<>>, scores |-> {}]
  /\ pc = "call_hasher"
  /\ args = [force_rescore |-> FALSE, pairs_carry_ids |-> FALSE]
  /\ files = <<>>
  /\ batch_start = 0
  /\ files_data_from_db = <<>>
  /\ all_files_data_for_return = <<>>
  /\ batch_contents = <<>>
  /\ batch_file_info = <<>>
  /\ embeddings = <<>>
  /\ attempt = 0
  /\ delay = 0
  /\ valid_pairs = <<>>
  /\ prompt_pairs = <<>>
  /\ data = <<>>
  /\ results = <<>>
  /\ hist \in [text_body : HasherTexts, content : {NULL}]

(* content = extract_content_for_hashing(text_body)                        *)
HasherCall ==
  /\ pc = "call_hasher"
  /\ hist' = [hist EXCEPT !.content = extract_content_for_hashing(hist.text_body)]
  /\ pc' = "ret_hasher"
  /\ UNCHANGED <<vaultVars, dbVars, args, batch_start, embedVars, attempt, delay,
                 scoreVars>>

NextHasher == HasherCall

SpecHasher == InitHasher /\ [][NextHasher]_vars

(* the text before the first marker of the argument *)
BeforeMarker == SubSeq(hist.text_body, 1, FindMarker(hist.text_body) - 1)

(* a text without its trailing blank lines: the lines after the last line  *)
(* that holds something other than whitespace go, with the line end        *)
(* before them                                                             *)
RECURSIVE StripTrailingBlankLines(_)
StripTrailingBlankLines(text) ==
  IF \E i \in DOMAIN text : text[i] = "\n"
  THEN LET last == CHOOSE i \in DOMAIN text :
                     text[i] = "\n" /\ \A j \in (i + 1)..Len(text) : text[j] # "\n"
       IN  IF IsBlank(SubSeq(text, last + 1, Len(text)))
           THEN StripTrailingBlankLines(SubSeq(text, 1, last - 1))
           ELSE text
  ELSE text

(* C29: for every body that contains the marker,                           *)
(* extract_content_for_hashing returns the text before the marker (its     *)
(* line ends normalised) with its trailing blank lines removed and exactly *)
(* one final "\n"; when that text is empty or whitespace only it returns   *)
(* exactly "\n".                                                           *)
C29_TrailingBlankLinesRemoved ==
  (pc = "ret_hasher" /\ FindMarker(hist.text_body) # 0) =>
    hist.content =
      IF IsBlank(BeforeMarker) THEN <<"\n">>
      ELSE StripTrailingBlankLines(ReplaceCRLF(BeforeMarker)) \o <<"\n">>

(* C29, as the code has it: for every body that contains the marker the    *)
(* result ends with one "\n"; it is exactly "\n" when the text before the  *)
(* marker is empty or whitespace only; otherwise the character before the  *)
(* final "\n" is not whitespace, the result without its final "\n" is the  *)
(* beginning of the text before the marker, each "\r\n" of it replaced by  *)
(* "\n", and what was left out of that text is whitespace only: every      *)
(* trailing whitespace character goes, the blanks that end the last line   *)
(* as well as the blank lines.                                             *)
C29_AllTrailingWhitespaceRemoved ==
  (pc = "ret_hasher" /\ FindMarker(hist.text_body) # 0) =>
    LET norm == ReplaceCRLF(BeforeMarker)
        c    == hist.content
        n    == Len(hist.content)
    IN  /\ n >= 1 /\ c[n] = "\n"
        /\ IsBlank(BeforeMarker) => c = <<"\n">>
        /\ ~IsBlank(BeforeMarker) =>
             /\ n >= 2 /\ c[n - 1] \notin Whitespace
             /\ n - 1 <= Len(norm)
             /\ SubSeq(c, 1, n - 1) = SubSeq(norm, 1, n - 1)
             /\ \A i \in n..Len(norm) : norm[i] \in Whitespace

(* a last line that ends with a blank, followed by a blank line            *)
C29_LastLineEndsWithBlank ==
  /\ pc = "ret_hasher"
  /\ hist.text_body = <<"a", " ", "\n", "\n", HASH_BOUNDARY_MARKER>>
  /\ hist.content = <<"a", "\n">>

(* C30: for every input text, the string extract_content_for_hashing       *)
(* returns contains no "\r\n".                                             *)
C30_NoCarriageReturnLineFeed ==
  pc = "ret_hasher" =>
    ~ \E i \in 1..(Len(hist.content) - 1) :
        hist.content[i] = "\r" /\ hist.content[i + 1] = "\n"

----------------------------------------------------------------------------
(* similarity.py on its own: generate_candidate_pairs over a map of at     *)
(* most MaxSimDocs documents, and cosine_similarity over two vectors.      *)

MaxSimDocs == 3

(* the vectors of the documents; NULL is a missing vector (None, or []).   *)
(* Their lengths are whole numbers, so that the floating-point cosine of   *)
(* the code is the exact one: 0.0, 0.6 or 1.0.                             *)
SimVectors == { NULL, <<1, 0>>, <<3, 4>>, <<0, 0>>, <<1>> }

(* 0.7, 1.0, 0.6 and 0.0 *)
SimThresholds ==
  { DEFAULT_SIMILARITY_THRESHOLD, [num |-> 1, den2 |-> 1], [num |-> 3, den2 |-> 25], ZeroSim }

(* the maps: the documents 1..n in every insertion order, a vector each    *)
SimOrders(n) == {o \in [1..n -> 1..n] : \A i, j \in 1..n : o[i] = o[j] => i = j}

SimMaps ==
  UNION { { [i \in 1..n |-> [key |-> o[i], val |-> [embedding |-> e[o[i]]]]] :
              o \in SimOrders(n), e \in [1..n -> SimVectors] } : n \in 0..MaxSimDocs }

(* Before a call: the map is in all_files_data_for_return, the threshold   *)
(* in args; hist holds what the calls return.                              *)
InitSimilarity ==
  /\ path = [d \in Docs |-> d]
  /\ fm_note_id = [d \in Docs |-> 0]
  /\ body = [d \in Docs |-> <<"a">>]
  /\ gone = {}
  /\ unreadable = {}
  /\ notes = <<>>
  /\ scores = {}
  /\ conn = [notes |-> <<>>, scores |-> {}]
  /\ pc = "call_similarity"
  /\ args \in [similarity_threshold : SimThresholds]
  /\ files = <<>>
  /\ batch_start = 0
  /\ files_data_from_db = <<>>
  /\ all_files_data_for_return \in SimMaps
  /\ batch_contents = <<>>
  /\ batch_file_info = <<>>
  /\ embeddings = <<>>
  /\ attempt = 0
  /\ delay = 0
  /\ valid_pairs = <<>>
  /\ prompt_pairs = <<>>
  /\ data = <<>>
  /\ results = <<>>
  /\ hist = [candidates |-> <<>>, vec1 |-> NULL, vec2 |-> NULL, sim |-> ZeroSim]

(* candidates = generate_candidate_pairs({"files": ...}, threshold)        *)
CandidatesCall ==
  /\ pc = "call_similarity"
  /\ hist' = [hist EXCEPT !.candidates =
                generate_candidate_pairs(all_files_data_for_return,
                                         args.similarity_threshold)]
  /\ pc' = "ret_candidates"
  /\ UNCHANGED <<vaultVars, dbVars, args, batch_start, embedVars, attempt, delay,
                 scoreVars>>

(* sim = cosine_similarity(vec1, vec2)                                     *)
CosineCall(vec1, vec2) ==
  /\ pc = "call_similarity"
  /\ hist' = [hist EXCEPT !.vec1 = vec1, !.vec2 = vec2,
                          !.sim = cosine_similarity(vec1, vec2)]
  /\ pc' = "ret_cosine"
  /\ UNCHANGED <<vaultVars, dbVars, args, batch_start, embedVars, attempt, delay,
                 scoreVars>>

NextSimilarity ==
  \/ CandidatesCall
  \/ \E vec1, vec2 \in SimVectors : CosineCall(vec1, vec2)

SpecSimilarity == InitSimilarity /\ [][NextSimilarity]_vars

(* the two documents of a returned pair *)
PairDocs(c) == {c.source_path, c.target_path}

(* C31: generate_candidate_pairs never returns both (a, b) and (b, a) for  *)
(* the same two documents, nor a pair of a document with itself, for every *)
(* input map and every threshold.                                          *)
C31_NoPairTwiceNoSelfPair ==
  pc = "ret_candidates" =>
    /\ \A k \in DOMAIN hist.candidates :
         hist.candidates[k].source_path # hist.candidates[k].target_path
    /\ \A k, l \in DOMAIN hist.candidates :
         PairDocs(hist.candidates[k]) = PairDocs(hist.candidates[l]) => k = l

(* three documents with the same vector: three pairs were returned         *)
C31_ThreePairsOfThreeDocuments ==
  /\ pc = "ret_candidates"
  /\ Len(all_files_data_for_return) = 3
  /\ Len(hist.candidates) = 3

(* the map's documents that have a vector *)
WithVector ==
  {i \in DOMAIN all_files_data_for_return : HasEmbedding(all_files_data_for_return[i])}

(* num / sqrt(den2) of s is at least that of t, neither being negative     *)
AtLeast(s, t) == s.num * s.num * t.den2 >= t.num * t.num * s.den2

(* C32: for every two distinct documents that both have a vector,          *)
(* generate_candidate_pairs returns exactly one pair for them when their   *)
(* cosine similarity is greater than or equal to the threshold (equality   *)
(* included) and no pair when it is below the threshold.                   *)
C32_OnePairIffAtLeastThreshold ==
  pc = "ret_candidates" =>
    \A i, j \in WithVector :
      i # j =>
        LET a   == all_files_data_for_return[i]
            b   == all_files_data_for_return[j]
            sim == cosine_similarity(a.val.embedding, b.val.embedding)
            n   == Cardinality({k \in DOMAIN hist.candidates :
                                  PairDocs(hist.candidates[k]) = {a.key, b.key}})
        IN  n = IF AtLeast(sim, args.similarity_threshold) THEN 1 ELSE 0

(* a cosine of 0.6 with the threshold 0.6: the pair was returned; and a    *)
(* cosine of 0.6 with the threshold 0.7 gave no pair                       *)
C32_PairAtTheThreshold ==
  /\ pc = "ret_candidates"
  /\ args.similarity_threshold = [num |-> 3, den2 |-> 25]
  /\ \E k \in DOMAIN hist.candidates :
       hist.candidates[k].jina_similarity = [num |-> 3, den2 |-> 25]

(* C33: the list generate_candidate_pairs returns is in non-increasing     *)
(* order of similarity.                                                    *)
C33_SortedBySimilarityDescending ==
  pc = "ret_candidates" =>
    \A k, l \in DOMAIN hist.candidates :
      k < l => SimGeq(hist.candidates[k].jina_similarity,
                      hist.candidates[l].jina_similarity)

(* the loops met the pairs of cosine 0.6 before the pair of cosine 1.0,    *)
(* which is the first of the returned list                                 *)
C33_LaterPairSortedFirst ==
  /\ pc = "ret_candidates"
  /\ Len(all_files_data_for_return) = 3
  /\ all_files_data_for_return[1].val.embedding = <<1, 0>>
  /\ all_files_data_for_return[2].val.embedding = <<3, 4>>
  /\ all_files_data_for_return[3].val.embedding = <<3, 4>>
  /\ Len(hist.candidates) = 3
  /\ hist.candidates[1].jina_similarity = [num |-> 25, den2 |-> 625]
  /\ PairDocs(hist.candidates[1]) =
       {all_files_data_for_return[2].key, all_files_data_for_return[3].key}

(* the map with its documents in the canonical order of their ids          *)
CanonicalMap(files_data) ==
  LET keys == SortedSeq({files_data[i].key : i \in DOMAIN files_data})
  IN  [i \in DOMAIN files_data |-> [key |-> keys[i], val |-> DictGet(files_data, keys[i])]]

(* the two documents of each pair of a list, in the order of the list      *)
PairDocsOf(candidates) == [k \in DOMAIN candidates |-> PairDocs(candidates[k])]

(* C34: pairs with equal similarity are returned in canonical document-id  *)
(* order, so the returned list is the same for every iteration order of an *)
(* input map that holds the same documents and vectors: the pairs come in  *)
(* the order in which they come for the map in canonical order.            *)
C34_SameListForEveryMapOrder ==
  pc = "ret_candidates" =>
    PairDocsOf(hist.candidates) =
      PairDocsOf(generate_candidate_pairs(CanonicalMap(all_files_data_for_return),
                                          args.similarity_threshold))

(* C35: in every pair generate_candidate_pairs returns the first document  *)
(* is smaller than the second under one fixed canonical ordering of        *)
(* document ids, independent of the order of the documents in the map.     *)
C35_SourceBeforeTarget ==
  pc = "ret_candidates" =>
    \A k \in DOMAIN hist.candidates :
      hist.candidates[k].source_path < hist.candidates[k].target_path

IsZeroVector(vec) == \A i \in DOMAIN vec : vec[i] = 0

(* C36: cosine_similarity returns 0.0 when either vector is null, empty or *)
(* all zeros, or when the two vectors have different lengths.              *)
C36_ZeroForDegenerateVectors ==
  ( /\ pc = "ret_cosine"
    /\ \/ IsZeroVector(hist.vec1) \/ IsZeroVector(hist.vec2)
       \/ Len(hist.vec1) # Len(hist.vec2) )
  => hist.sim = ZeroSim

(* two vectors of different lengths, neither of them empty or zero         *)
C36_DifferentLengths ==
  /\ pc = "ret_cosine"
  /\ hist.vec1 = <<1>> /\ hist.vec2 = <<3, 4>>
  /\ hist.sim = ZeroSim

----------------------------------------------------------------------------
(* Properties of get_jina_embedding                                        *)

(* C37: when the provider's first response is well-formed (a data list     *)
(* whose first item carries an embedding v), get_jina_embedding returns v  *)
(* and has sent exactly one request: there is no retry after a success.    *)
C37_FirstGoodAnswerReturned ==
  ( /\ pc \in {"single_call", "single_ret"}
    /\ hist.singleLog # <<>>
    /\ hist.singleLog[1].status = "ok" )
  => /\ pc = "single_ret"
     /\ Len(hist.singleLog) = 1
     /\ embeddings = JinaVector(batch_contents[1])

(* the call for the text "ab" returned the vector of the one answer        *)
C37_OneRequestOneVector ==
  /\ pc = "single_ret"
  /\ batch_contents = << <<"a", "b">> >>
  /\ Len(hist.singleLog) = 1
  /\ hist.singleLog[1].status = "ok"
  /\ hist.singleLog[1].input = << <<"a", "b">> >>
  /\ embeddings = <<1, 1>>

----------------------------------------------------------------------------
(* Properties of the persisted scores                                      *)

(* C38: every ai_score that score_candidates persists belongs to a pair    *)
(* whose content was included in the request actually sent to the AI       *)
(* provider: a pair left out of the request by the pair-count cap or by    *)
(* the total-character budget gets no persisted score.  The rows the run   *)
(* wrote are those that were not in the table when it started.             *)
C38_PersistedScoreWasInARequest ==
  \A r \in scores \ hist.prevScores :
    \E i \in DOMAIN hist.aiLog :
      \E g \in hist.aiLog[i].sent :
        g.source_path = r.file_name_a /\ g.target_path = r.file_name_b

----------------------------------------------------------------------------
(* The note file and its front-matter: read_markdown_with_frontmatter,     *)
(* write_markdown_with_frontmatter and the scan of one file by             *)
(* process_and_embed_notes, over files of at most MaxFileLen tokens.  A    *)
(* token is a character, the marker, the three dashes of a front-matter    *)
(* delimiter, or the line yaml.dump writes for a note_id.                  *)

MaxFileLen == 5

MaxScans == 2

FM_DELIM == "---"

(* yaml.dump({"note_id": n}).strip() *)
IdLine(n) == <<"note_id: 1", "note_id: 2", "note_id: 3", "note_id: 4">>[n]

(* str.split("\n") *)
RECURSIVE SplitLines(_)
SplitLines(text) ==
  IF \E i \in DOMAIN text : text[i] = "\n"
  THEN LET i == CHOOSE i \in DOMAIN text :
                  text[i] = "\n" /\ \A j \in 1..(i - 1) : text[j] # "\n"
       IN  <<SubSeq(text, 1, i - 1)>> \o SplitLines(SubSeq(text, i + 1, Len(text)))
  ELSE <<text>>

(* "\n".join(lines) *)
RECURSIVE JoinLines(_)
JoinLines(lines) ==
  IF lines = <<>> THEN <<>>
  ELSE IF Len(lines) = 1 THEN lines[1]
  ELSE lines[1] \o <<"\n">> \o JoinLines(Tail(lines))

NotWhitespace(c) == c \notin Whitespace

(* line.strip() == "---" *)
IsDelimLine(line) == SelectSeq(line, NotWhitespace) = <<FM_DELIM>>

(* a read that never takes the head of the file for front-matter           *)
StartsWithFrontmatter_Never(full_content) == FALSE

(* full_content.startswith("---") *)
StartsWithFrontmatter(full_content) == full_content # <<>> /\ full_content[1] = FM_DELIM

(* the first line after the first that is a delimiter, 0 for -1; a line    *)
(* is counted from 0 as in the code                                        *)
FrontmatterEnd(lines) ==
  LET ends == {i \in 2..Len(lines) : IsDelimLine(lines[i])}
  IN  IF ends = {} THEN 0 ELSE (CHOOSE i \in ends : \A j \in ends : i <= j) - 1

(* yaml.safe_load(frontmatter_block).get("note_id"), 0 for none: the block *)
(* is blank or holds the line of a note_id                                 *)
YamlNoteId(frontmatter_lines) ==
  IF \E i \in DOMAIN frontmatter_lines : \E n \in 1..4 : frontmatter_lines[i] = <<IdLine(n)>>
  THEN CHOOSE n \in 1..4 : \E i \in DOMAIN frontmatter_lines : frontmatter_lines[i] = <<IdLine(n)>>
  ELSE 0

(* str.lstrip("\n") *)
RECURSIVE LStripNewlines(_)
LStripNewlines(text) ==
  IF text # <<>> /\ text[1] = "\n" THEN LStripNewlines(Tail(text)) ELSE text

(* text[:idx].rstrip() when the marker is at idx, text otherwise           *)
CutAtMarker(text) ==
  IF FindMarker(text) = 0 THEN text ELSE RStrip(SubSeq(text, 1, FindMarker(text) - 1))

(* read_markdown_with_frontmatter(file_path): the body and the note_id of  *)
(* the front-matter                                                        *)
read_markdown_with_frontmatter(full_content) ==
  LET lines == SplitLines(full_content)
      frontmatter_end == IF StartsWithFrontmatter(full_content)
                         THEN FrontmatterEnd(lines) ELSE 0
  IN  IF frontmatter_end = 0
      THEN [body |-> CutAtMarker(full_content), note_id |-> 0]
      ELSE [body    |-> CutAtMarker(JoinLines(SubSeq(lines, frontmatter_end + 2, Len(lines)))),
            note_id |-> YamlNoteId(SubSeq(lines, 2, frontmatter_end))]

(* write_markdown_with_frontmatter(file_path, {"note_id": n}, body): the   *)
(* new content of the file whose content was original_content             *)
write_markdown_with_frontmatter(original_content, n, body_text) ==
  LET idx    == FindMarker(original_content)
      original_post_boundary_content ==
                IF idx = 0 THEN <<>>
                ELSE SubSeq(original_content, idx + 1, Len(original_content))
      output == <<FM_DELIM, "\n", IdLine(n), "\n", FM_DELIM, "\n">> \o LStripNewlines(body_text)
  IN  IF FindMarker(body_text) = 0 /\ original_post_boundary_content # <<>>
      THEN RStrip(output) \o <<"\n", "\n", HASH_BOUNDARY_MARKER>>
             \o original_post_boundary_content
      ELSE output

NoteChars == {"a", " ", "\n", FM_DELIM, HASH_BOUNDARY_MARKER}

(* the files a user wrote: no note_id yet, and a front-matter, where there *)
(* is one, that is blank                                                   *)
NoteFiles ==
  {f \in UNION {[1..n -> NoteChars] : n \in 0..MaxFileLen} :
     LET lines == SplitLines(f)
     IN  (StartsWithFrontmatter(f) /\ FrontmatterEnd(lines) # 0)
           => \A i \in 2..FrontmatterEnd(lines) : IsBlank(lines[i])}

(* Before the first scan: hist holds the file as the user wrote it, the    *)
(* file as it is now, and for each scan so far the note_id it used, the    *)
(* content_hash it computed and whether it wrote the note_id.              *)
InitNoteFile ==
  /\ path = [d \in Docs |-> d]
  /\ fm_note_id = [d \in Docs |-> 0]
  /\ body = [d \in Docs |-> <<"a">>]
  /\ gone = {}
  /\ unreadable = {}
  /\ notes = <<>>
  /\ scores = {}
  /\ conn = [notes |-> <<>>, scores |-> {}]
  /\ pc = "scan_file"
  /\ args = [force_rescore |-> FALSE, pairs_carry_ids |-> FALSE]
  /\ files = <<>>
  /\ batch_start = 0
  /\ files_data_from_db = <<>>
  /\ all_files_data_for_return = <<>>
  /\ batch_contents = <<>>
  /\ batch_file_info = <<>>
  /\ embeddings = <<>>
  /\ attempt = 0
  /\ delay = 0
  /\ valid_pairs = <<>>
  /\ prompt_pairs = <<>>
  /\ data = <<>>
  /\ results = <<>>
  /\ \E f \in NoteFiles :
       hist = [original |-> f, file |-> f, ids |-> <<>>, hashes |-> <<>>, wrote |-> <<>>]

(* The scan of the file by one run (embed_pipeline.py 78-96): the read,    *)
(* the note_id, generated and written back when the front-matter has none, *)
(* and the content_hash of the body that was read.                         *)
ScanFile ==
  /\ pc = "scan_file"
  /\ Len(hist.ids) < MaxScans
  /\ LET read    == read_markdown_with_frontmatter(hist.file)
         new     == read.note_id = 0
         note_id == IF new THEN Len(hist.ids) + 1 ELSE read.note_id
     IN  hist' = [hist EXCEPT
                    !.file   = IF new
                               THEN write_markdown_with_frontmatter(hist.file, note_id, read.body)
                               ELSE @,
                    !.ids    = Append(@, note_id),
                    !.hashes = Append(@, calculate_hash_from_content(ContentToHash(read.body))),
                    !.wrote  = Append(@, new)]
  /\ UNCHANGED <<vaultVars, dbVars, pc, args, batch_start, embedVars, attempt, delay,
                 scoreVars>>

NextNoteFile == ScanFile

SpecNoteFile == InitNoteFile /\ [][NextNoteFile]_vars

(* C39: assigning a new note_id to a document does not change the          *)
(* document's fingerprint: the hash computed in the run that assigns the   *)
(* id equals the hash computed from the rewritten file in the next run,    *)
(* for every body, bodies that start with blank lines included.            *)
C39_HashUnchangedByNoteIdAssignment ==
  \A k \in 1..(Len(hist.hashes) - 1) :
    hist.wrote[k] => hist.hashes[k + 1] = hist.hashes[k]

=============================================================================
